---- MODULE Spec2Model ----
(***************************************************************************)
(* Verification model of the query-answering core of ai-knowledge-console. *)
(*                                                                         *)
(*   SpecChunk  DocumentProcessor.chunk_text, one loop iteration per step  *)
(*   SpecStore  ConversationService over SQLite: add_message as a          *)
(*              transaction, statement by statement, two callers           *)
(*   SpecHistory  create_conversation, add_message, get_history, call by   *)
(*              call, with the wall clock                                  *)
(*   SpecConv   the delete routes of routers/conversations.py              *)
(*   SpecVector VectorStoreService and the routes that use it              *)
(*   SpecTools  _fetch_tool_data, one requested tool per step              *)
(*   SpecChat   chat_query and websocket_chat at the same time, one        *)
(*              statement per step                                         *)
(*   SpecQuery  requests of every shape and every upstream outcome, served *)
(*              by one handler                                             *)
(*   SpecStream LLMService.generate_stream, one received line per step     *)
(*   SpecPrompt LLMService.build_rag_prompt, one call                      *)
(*   SpecProvider  the provider resolution of LLMService over every        *)
(*              environment and stored configuration                       *)
(*   SpecDownload  the model download routes over the ModelManager         *)
(*              singleton, with their background tasks                     *)
(***************************************************************************)
EXTENDS Integers, Sequences, FiniteSets, TLC

(***************************************************************************)
(* Bounds of the model.                                                    *)
(***************************************************************************)
MaxTextLen == 10      \* longest text given to chunk_text
MaxChunkSize == 9     \* largest settings.chunk_size
MaxIter == 12         \* cap on the iterations of a chunk_text loop
MaxMsgs == 3          \* cap on the rows of table messages (SpecHistory)
MaxTxMsgs == 2        \* cap on the rows of table messages (SpecStore)
MaxClock == 1         \* last second of the wall clock
MaxLimit == 3         \* largest limit given to get_history
MaxTools == 3         \* longest tools list of one request
MaxChatMsgs == 4      \* cap on the rows of table messages (SpecChat)
MaxTokens == 1        \* most tokens of one streamed answer
MaxAdded == 4         \* most chunks ever added to the collection
MaxDocChunks == 2     \* most chunks of one uploaded document
MaxLines == 3         \* most lines of one streamed upstream response
MaxPromptHistory == 7 \* longest history given to build_rag_prompt
MaxPromptChunks == 2  \* most chunks given to build_rag_prompt
MaxRequests == 4      \* most download requests of one run

VARIABLES
    \* ---- DocumentProcessor.chunk_text ----
    text,          \* the text argument, a sequence of characters
    chunk_size,    \* settings.chunk_size
    overlap,       \* settings.chunk_overlap
    start,         \* local variable start
    chunk_index,   \* local variable chunk_index
    chunks,        \* list chunks
    metadata,      \* list metadata
    ends,          \* value of local variable end at each append
    pcChunk,       \* "idle", "loop" or "done" (returned)
    \* ---- ConversationService (SQLite file) ----
    conversations, \* committed rows of table conversations (their ids)
    messages,      \* committed rows of table messages, in rowid order
    nextRowId,     \* next AUTOINCREMENT value of messages.id
    clock,         \* CURRENT_TIMESTAMP, in whole seconds
    dbLock,        \* the connection holding the write lock, or NoOne
    tx,            \* per caller: the open add_message transaction
    created,       \* ids inserted by create_conversation
    hist,          \* the last call, when it was get_history: its result
    \* ---- _fetch_tool_data ----
    ftTools,       \* argument tools, a list of tool names
    ftEnv,         \* what each external API does during this call
    ftIdx,         \* position of the for loop in tools (1-based)
    ftData,        \* local dict data
    ftLog,         \* the APIToolsService calls awaited so far: when each
                   \* was started and when it returned
    pcTools,       \* "idle", "loop" or "done" (returned)
    \* ---- chat_query / websocket_chat ----
    q,             \* per handler: position and locals of its current query
    wsOpen,        \* the client side of the WebSocket is connected
    discEarly,     \* the client left during the current WebSocket query,
                   \* before the terminal token of its stream
    llmMode,       \* LLMService.is_local: "local", otherwise "cloud"
    wsFrames,      \* the texts received and the frames sent on the WebSocket,
                   \* in order
    \* ---- routers/conversations.py ----
    resp,          \* the response of the last call of a conversations route
    \* ---- VectorStoreService ----
    collection,    \* the Chroma collection "documents" of the persist
                   \* directory, in insertion order
    nextUuid,      \* stands for the next uuid4 of add_documents
    vs,            \* per VectorStoreService object: embedding_model and
                   \* embedding_model_name
    wanted,        \* the name given to the last reload of the embedding model
    vcall,         \* the last call on a VectorStoreService
    \* ---- LLMService.generate_stream ----
    gsLines,       \* the lines response.aiter_lines() delivers before the
                   \* transport closes
    gsIdx,         \* position of the async for loop in gsLines (1-based)
    gsYield,       \* the strings yielded so far
    pcStream,      \* "idle", "iter", "returned" or "raised"
    \* ---- LLMService.build_rag_prompt ----
    bpQuery,       \* argument query
    bpChunks,      \* argument context_chunks
    bpApi,         \* argument api_data
    bpHistory,     \* argument conversation_history
    bpOut,         \* the returned string
    pcPrompt,      \* "idle", "call" or "returned"
    \* ---- ConfigService / LLMService provider resolution ----
    envProvider,   \* settings.llm_provider (environment)
    userSettings,  \* the llm section of settings.json
    llmConfig,     \* LLMService._llm_config
    llmRequest,    \* the request generate or generate_stream has sent
    pcProv,        \* "idle", "start", "ready" or "sent"
    \* ---- ModelManager and the download routes ----
    active_downloads, \* per download id: its status, or NoStatus
    bgTasks,       \* per download id: background tasks added, not started
    dlRunning,     \* per download id: downloads running in the executor
    dlRequests,    \* download requests answered so far
    dlResp         \* the last answer of a download route

chunkVars == <<text, chunk_size, overlap, start, chunk_index, chunks,
               metadata, ends, pcChunk>>

storeVars == <<conversations, messages, nextRowId, clock, dbLock, tx,
               created, hist>>

toolVars == <<ftTools, ftEnv, ftIdx, ftData, ftLog, pcTools>>

chatVars == <<q, wsOpen, discEarly, llmMode, wsFrames>>

routeVars == <<resp>>

vecVars == <<collection, nextUuid, vs, wanted, vcall>>

streamVars == <<gsLines, gsIdx, gsYield, pcStream>>

\* the parts added to the model after the first six
promptVars == <<bpQuery, bpChunks, bpApi, bpHistory, bpOut, pcPrompt>>

provVars == <<envProvider, userSettings, llmConfig, llmRequest, pcProv>>

dlVars == <<active_downloads, bgTasks, dlRunning, dlRequests, dlResp>>

moreVars == <<streamVars, promptVars, provVars, dlVars>>

vars == <<chunkVars, storeVars, toolVars, chatVars, routeVars, vecVars,
          moreVars>>

NoOne == "none"
Writers == {"w1", "w2"}
ConvIds == {"c1", "c2"}
Roles == {"user", "assistant", "system"}
Contents == {"hi", "hello"}

IdleTx == [pc |-> "idle", conv |-> "c1", role |-> "user", content |-> "hi",
           ts |-> 0]
NoHist == [conv |-> NoOne, limit |-> 0, rows |-> <<>>, log |-> <<>>]

\* the state of each part before it is used
ChunkIdle ==
    /\ text = <<>>
    /\ chunk_size = 1
    /\ overlap = 0
    /\ start = 0
    /\ chunk_index = 0
    /\ chunks = <<>>
    /\ metadata = <<>>
    /\ ends = <<>>
    /\ pcChunk = "idle"

\* ConversationService.__init__ / _init_database: empty tables
StoreIdle ==
    /\ conversations = {}
    /\ messages = <<>>
    /\ nextRowId = 1
    /\ clock = 0
    /\ dbLock = NoOne
    /\ tx = [w \in Writers |-> IdleTx]
    /\ created = {}
    /\ hist = NoHist

\* the tools with a branch in _fetch_tool_data that calls APIToolsService
ApiTools == {"github", "crypto", "weather", "hackernews"}
\* the tools whose branch stores a fixed error
StubTools == {"drive", "slack"}
\* names a request may carry; "gmail" has no branch in _fetch_tool_data
ToolNames == ApiTools \cup StubTools \cup {"gmail"}

EmptyDict == [t \in {} |-> 0]

ToolsIdle ==
    /\ ftTools = <<>>
    /\ ftEnv = [t \in ApiTools |-> "ok"]
    /\ ftIdx = 1
    /\ ftData = EmptyDict
    /\ ftLog = <<>>
    /\ pcTools = "idle"

\* one chat_query handler and one websocket_chat connection
Handlers == {"http", "ws"}

\* nothing has been sent to the caller
NoReply == [status |-> 0, fields |-> {}, response |-> "", sources |-> <<>>,
            api_data_used |-> {}, conversation_id |-> NoOne]

IdleQuery == [pc |-> "idle", msg_in |-> "", msg |-> "", conv_in |-> NoOne,
              conv_id |-> NoOne, creates |-> 0, histConv |-> NoOne,
              history |-> <<>>, tools |-> <<>>, searched |-> FALSE,
              sources |-> <<>>, api |-> {}, n |-> 0,
              genStarted |-> FALSE, genDone |-> FALSE, llm |-> NoOne,
              llmCalls |-> 0, response |-> "", userRow |-> 0,
              asstRow |-> 0, reply |-> NoReply]

ChatIdle ==
    /\ q = [h \in Handlers |-> IdleQuery]
    /\ wsOpen = TRUE
    /\ discEarly = FALSE
    /\ llmMode = "local"
    /\ wsFrames = <<>>

NoResp == [op |-> NoOne, conv |-> NoOne, status |-> 0]

RouteIdle == resp = NoResp

\* app.state.vector_store (app.py, lifespan) and the object cached by
\* get_vector_store (dependencies.py)
Instances == {"app_state", "dependency"}
\* model names; the first is settings.embedding_model
ModelNames == {"all-MiniLM-L6-v2", "other-model"}
DefaultModel == "all-MiniLM-L6-v2"
NoModel == "None"
NoCall == [op |-> NoOne, inst |-> NoOne, model |-> NoModel,
           filename |-> NoOne, count |-> 0, result |-> {}, status |-> 0]

\* no generate_stream call has been made
StreamIdle ==
    /\ gsLines = <<>>
    /\ gsIdx = 1
    /\ gsYield = <<>>
    /\ pcStream = "idle"

\* no build_rag_prompt call has been made
PromptIdle ==
    /\ bpQuery = ""
    /\ bpChunks = <<>>
    /\ bpApi = [none |-> TRUE, items |-> <<>>]
    /\ bpHistory = <<>>
    /\ bpOut = <<>>
    /\ pcPrompt = "idle"

\* no LLMService has been constructed
ProviderIdle ==
    /\ envProvider = "local"
    /\ userSettings = [present |-> FALSE, llm |-> EmptyDict]
    /\ llmConfig = EmptyDict
    /\ llmRequest = [url |-> "", path |-> "", stream |-> FALSE]
    /\ pcProv = "idle"

\* no ModelManager has been constructed
DownloadIdle ==
    /\ active_downloads = <<>>
    /\ bgTasks = <<>>
    /\ dlRunning = <<>>
    /\ dlRequests = 0
    /\ dlResp = [download_id |-> NoOne, status |-> NoOne]

MoreIdle == StreamIdle /\ PromptIdle /\ ProviderIdle /\ DownloadIdle

\* VectorStoreService.__init__ of both objects, on an empty collection
VectorIdle ==
    /\ collection = <<>>
    /\ nextUuid = 1
    /\ vs = [i \in Instances |-> [embedding_model |-> NoModel,
                                  embedding_model_name |-> DefaultModel]]
    /\ wanted = NoModel
    /\ vcall = NoCall

Min(a, b) == IF a < b THEN a ELSE b
Max(a, b) == IF a > b THEN a ELSE b

(***************************************************************************)
(* Python string primitives used by chunk_text.  Positions are 0-based as  *)
(* in Python; a string is a sequence of one-character strings.             *)
(***************************************************************************)
Alphabet == {".", " "}
Whitespace == {" "}

\* Python index normalisation of a slice bound
PyBound(i, n) == IF i < 0 THEN Max(n + i, 0) ELSE Min(i, n)

\* s[a:b]
PySlice(s, a, b) ==
    LET lo == PyBound(a, Len(s))
        hi == PyBound(b, Len(s))
    IN IF hi <= lo THEN <<>> ELSE SubSeq(s, lo + 1, hi)

\* s.rfind(". "): highest 0-based index of the pattern, -1 when absent
RFindPeriod(s) ==
    LET hits == {i \in 0..(Len(s) - 2) : s[i + 1] = "." /\ s[i + 2] = " "}
    IN IF hits = {} THEN -1 ELSE CHOOSE i \in hits : \A j \in hits : j <= i

\* s.strip()
Strip(s) ==
    LET keep == {i \in 1..Len(s) : s[i] \notin Whitespace}
    IN IF keep = {} THEN <<>>
       ELSE LET lo == CHOOSE i \in keep : \A j \in keep : i <= j
                hi == CHOOSE i \in keep : \A j \in keep : j <= i
            IN SubSeq(s, lo, hi)

Filename == "doc.txt"

(***************************************************************************)
(* One iteration of the while loop of chunk_text.                          *)
(***************************************************************************)
\* the window end of the iteration that begins at start
WindowEnd(txt, st, S) ==
    LET end0 == st + S
        chunk0 == PySlice(txt, st, end0)
        last_period == RFindPeriod(chunk0)
    IN IF end0 < Len(txt) /\ last_period > S \div 2
       THEN st + last_period + 1
       ELSE end0

\* the chunk text of the iteration that begins at start, before strip()
WindowChunk(txt, st, S) ==
    LET end0 == st + S
        chunk0 == PySlice(txt, st, end0)
        last_period == RFindPeriod(chunk0)
    IN IF end0 < Len(txt) /\ last_period > S \div 2
       THEN PySlice(chunk0, 0, last_period + 1)
       ELSE chunk0

\* a sign slip on line 65: the next window starts past the previous end
NextStart_Forward(end, O) == end + O

NextStart(end, O) == end - O

ChunkStep ==
    /\ pcChunk = "loop"
    /\ start < Len(text)
    /\ chunk_index < MaxIter
    /\ LET end == WindowEnd(text, start, chunk_size)
           chunk == WindowChunk(text, start, chunk_size)
       IN /\ chunks' = Append(chunks, Strip(chunk))
          /\ metadata' = Append(metadata,
                 [filename |-> Filename, chunk_index |-> chunk_index,
                  start_char |-> start])
          /\ ends' = Append(ends, end)
          /\ start' = NextStart(end, overlap)
          /\ chunk_index' = chunk_index + 1
    /\ UNCHANGED <<text, chunk_size, overlap, pcChunk>>

ChunkReturn ==
    /\ pcChunk = "loop"
    /\ ~(start < Len(text))
    /\ pcChunk' = "done"
    /\ UNCHANGED <<text, chunk_size, overlap, start, chunk_index, chunks,
                   metadata, ends>>

ChunkAct(A) ==
    A /\ UNCHANGED <<storeVars, toolVars, chatVars, routeVars, vecVars,
                     moreVars>>

Texts == UNION {[1..n -> Alphabet] : n \in 0..MaxTextLen}

InitChunk ==
    /\ text \in Texts
    /\ chunk_size \in 1..MaxChunkSize
    /\ overlap \in 0..(chunk_size - 1)
    /\ start = 0
    /\ chunk_index = 0
    /\ chunks = <<>>
    /\ metadata = <<>>
    /\ ends = <<>>
    /\ pcChunk = "loop"
    /\ StoreIdle
    /\ ToolsIdle
    /\ ChatIdle
    /\ RouteIdle
    /\ VectorIdle
    /\ MoreIdle

NextChunk == ChunkAct(ChunkStep) \/ ChunkAct(ChunkReturn)

SpecChunk == InitChunk /\ [][NextChunk]_vars


(***************************************************************************)
(* ConversationService.  Every method opens its own SQLite connection; a   *)
(* connection sees the committed tables only, the statements of an open    *)
(* transaction become visible at its commit, and leaving the with-block by *)
(* an exception rolls the transaction back.                                *)
(***************************************************************************)
ValidRoles == {"user", "assistant"}

Range(f) == {f[i] : i \in DOMAIN f}

Reverse(s) == [i \in 1..Len(s) |-> s[Len(s) + 1 - i]]

\* the committed rows of one conversation, in rowid order
RowsOf(c) == SelectSeq(messages, LAMBDA m : m.conversation_id = c)

\* dict(row) for the columns of the SELECT of get_history
RowDict(m) == [role |-> m.role, content |-> m.content,
               created_at |-> m.created_at]

\* ORDER BY created_at DESC; SQL leaves the order of rows with equal
\* created_at open: tie is the order the engine delivers them in
Before(a, b, tie) ==
    \/ a.created_at > b.created_at
    \/ /\ a.created_at = b.created_at
       /\ IF tie = "rowid_asc" THEN a.id < b.id ELSE a.id > b.id

OrderByCreatedAtDesc(rows, tie) ==
    [k \in 1..Len(rows) |->
        CHOOSE r \in Range(rows) :
            Cardinality({x \in Range(rows) : Before(x, r, tie)}) = k - 1]

\* LIMIT n (a negative n is no limit)
SqlLimit(rows, n) ==
    IF n < 0 THEN rows ELSE SubSeq(rows, 1, Min(n, Len(rows)))

\* get_history(conversation_id, limit)
GetHistory(c, limit, tie) ==
    LET fetched == SqlLimit(OrderByCreatedAtDesc(RowsOf(c), tie), limit)
        dicts == [i \in 1..Len(fetched) |-> RowDict(fetched[i])]
    IN Reverse(dicts)

TieOrders == {"rowid_asc", "rowid_desc"}

GetHistoryCall(c, limit, tie) ==
    /\ hist' = [conv |-> c, limit |-> limit,
                rows |-> GetHistory(c, limit, tie),
                log |-> [i \in 1..Len(RowsOf(c)) |-> RowDict(RowsOf(c)[i])]]
    /\ UNCHANGED <<conversations, messages, nextRowId, clock, dbLock, tx,
                   created>>

\* the wall clock passes to the next second
Tick ==
    /\ clock < MaxClock
    /\ clock' = clock + 1
    /\ UNCHANGED <<conversations, messages, nextRowId, dbLock, tx, created,
                   hist>>

\* create_conversation: a fresh uuid4, one INSERT, commit
CreateConversation(c) ==
    /\ dbLock = NoOne
    /\ c \notin conversations
    /\ conversations' = conversations \cup {c}
    /\ created' = created \cup {c}
    /\ hist' = NoHist
    /\ UNCHANGED <<messages, nextRowId, clock, dbLock, tx>>

\* add_message without its first statement
StoreAdd_NoUpsert(c, role, content) ==
    /\ conversations' = conversations
    /\ messages' = Append(messages,
           [id |-> nextRowId, conversation_id |-> c, role |-> role,
            content |-> content, created_at |-> clock])
    /\ nextRowId' = nextRowId + 1

\* the two INSERT statements of add_message, committed
StoreAdd(c, role, content) ==
    /\ conversations' = conversations \cup {c}
    /\ messages' = Append(messages,
           [id |-> nextRowId, conversation_id |-> c, role |-> role,
            content |-> content, created_at |-> clock])
    /\ nextRowId' = nextRowId + 1

\* add_message(conversation_id, role, content) called with no other
\* connection open: it commits, or the CHECK constraint on role raises
\* sqlite3.IntegrityError and nothing is written
AddMessage(c, role, content) ==
    /\ dbLock = NoOne
    /\ Len(messages) < MaxMsgs
    /\ IF role \in ValidRoles
       THEN StoreAdd(c, role, content)
       ELSE UNCHANGED <<conversations, messages, nextRowId>>
    /\ hist' = NoHist
    /\ UNCHANGED <<clock, dbLock, tx, created>>

\* add_message, first statement: INSERT OR IGNORE INTO conversations.
\* The statement opens the transaction and takes the write lock.
AddMessageUpsert(w, c, role, content) ==
    /\ tx[w].pc = "idle"
    /\ dbLock = NoOne
    /\ Len(messages) < MaxTxMsgs
    /\ dbLock' = w
    /\ tx' = [tx EXCEPT ![w] = [pc |-> "upserted", conv |-> c, role |-> role,
                                content |-> content, ts |-> clock]]
    /\ UNCHANGED <<conversations, messages, nextRowId, clock, created, hist>>

\* add_message while another connection holds the write lock: the busy
\* timeout runs out, sqlite3.OperationalError leaves the with-block
AddMessageBusy(w) ==
    /\ tx[w].pc = "idle"
    /\ dbLock # NoOne
    /\ tx' = [tx EXCEPT ![w].pc = "busy"]
    /\ UNCHANGED <<conversations, messages, nextRowId, clock, dbLock,
                   created, hist>>

\* a connection in autocommit mode: the upsert is durable although the
\* message insert failed
Rollback_KeepUpsert(w) ==
    /\ conversations' = conversations \cup {tx[w].conv}
    /\ messages' = messages
    /\ nextRowId' = nextRowId

\* the with-block is left by an exception: the open transaction is rolled back
Rollback(w) ==
    /\ conversations' = conversations
    /\ messages' = messages
    /\ nextRowId' = nextRowId

\* the second statement on a table messages without the CHECK constraint
AddMessageInsert_NoCheck(w) ==
    /\ tx[w].pc = "upserted"
    /\ tx' = [tx EXCEPT ![w].pc = "inserted", ![w].ts = clock]
    /\ UNCHANGED <<conversations, messages, nextRowId, dbLock>>
    /\ UNCHANGED <<clock, created, hist>>

\* add_message, second statement: INSERT INTO messages, under the CHECK
\* constraint on role
AddMessageInsert(w) ==
    /\ tx[w].pc = "upserted"
    /\ IF tx[w].role \in ValidRoles
       THEN /\ tx' = [tx EXCEPT ![w].pc = "inserted", ![w].ts = clock]
            /\ UNCHANGED <<conversations, messages, nextRowId, dbLock>>
       ELSE /\ tx' = [tx EXCEPT ![w].pc = "failed"]
            /\ Rollback(w)
            /\ dbLock' = NoOne
    /\ UNCHANGED <<clock, created, hist>>

\* add_message, conn.commit(): both statements become visible together
AddMessageCommit(w) ==
    /\ tx[w].pc = "inserted"
    /\ conversations' = conversations \cup {tx[w].conv}
    /\ messages' = Append(messages,
           [id |-> nextRowId, conversation_id |-> tx[w].conv,
            role |-> tx[w].role, content |-> tx[w].content,
            created_at |-> tx[w].ts])
    /\ nextRowId' = nextRowId + 1
    /\ dbLock' = NoOne
    /\ tx' = [tx EXCEPT ![w] = IdleTx]
    /\ UNCHANGED <<clock, created, hist>>

\* the caller has seen the exception of a failed add_message
AddMessageRaised(w) ==
    /\ tx[w].pc \in {"failed", "busy"}
    /\ tx' = [tx EXCEPT ![w] = IdleTx]
    /\ UNCHANGED <<conversations, messages, nextRowId, clock, dbLock,
                   created, hist>>

StoreAct(A) ==
    A /\ UNCHANGED <<chunkVars, toolVars, chatVars, routeVars, vecVars,
                     moreVars>>

InitStore ==
    /\ StoreIdle /\ ChunkIdle /\ ToolsIdle /\ ChatIdle /\ RouteIdle
    /\ VectorIdle /\ MoreIdle

\* callers of add_message on separate connections, statement by statement
NextStore ==
    \/ \E c \in ConvIds : StoreAct(CreateConversation(c))
    \/ \E w \in Writers, c \in ConvIds, role \in Roles, content \in Contents :
           StoreAct(AddMessageUpsert(w, c, role, content))
    \/ \E w \in Writers : StoreAct(AddMessageBusy(w))
    \/ \E w \in Writers : StoreAct(AddMessageInsert(w))
    \/ \E w \in Writers : StoreAct(AddMessageCommit(w))
    \/ \E w \in Writers : StoreAct(AddMessageRaised(w))

SpecStore == InitStore /\ [][NextStore]_vars

\* one caller using the service call by call
NextHistory ==
    \/ StoreAct(Tick)
    \/ \E c \in ConvIds : StoreAct(CreateConversation(c))
    \/ \E c \in ConvIds, role \in Roles, content \in Contents :
           StoreAct(AddMessage(c, role, content))
    \/ \E c \in ConvIds, limit \in 0..MaxLimit, tie \in TieOrders :
           StoreAct(GetHistoryCall(c, limit, tie))

SpecHistory == InitStore /\ [][NextHistory]_vars

(***************************************************************************)
(* routers/conversations.py over its own ConversationService object, which *)
(* opens the same database file.                                           *)
(***************************************************************************)
\* the methods class ConversationService defines
ServiceMethods == {"_init_database", "create_conversation", "add_message",
                   "get_history", "clear_conversation",
                   "conversation_exists", "search_conversations",
                   "list_conversations"}

\* service.<name>(...) on a name the class does not define: AttributeError,
\* which the exception handler of the application turns into a 500
CallRaises(name) == name \notin ServiceMethods

\* conversation_exists(conversation_id)
ConversationExists(c) == c \in conversations

\* clear_conversation: DELETE FROM messages WHERE conversation_id = ?
ClearConversation(c) ==
    /\ dbLock = NoOne
    /\ messages' = SelectSeq(messages, LAMBDA m : m.conversation_id # c)
    /\ hist' = NoHist
    /\ resp' = [op |-> "clear", conv |-> c, status |-> 200]
    /\ UNCHANGED <<conversations, nextRowId, clock, dbLock, tx, created>>

\* DELETE /{conversation_id}: 404 for an absent id, otherwise
\* service.delete_conversation(conversation_id)
DeleteConversationRoute(c) ==
    /\ resp' = [op |-> "delete", conv |-> c,
                status |-> IF ~ConversationExists(c) THEN 404
                           ELSE IF CallRaises("delete_conversation") THEN 500
                           ELSE 200]
    /\ UNCHANGED storeVars

\* DELETE /: service.delete_all()
DeleteAllRoute ==
    /\ resp' = [op |-> "delete_all", conv |-> NoOne,
                status |-> IF CallRaises("delete_all") THEN 500 ELSE 200]
    /\ UNCHANGED storeVars

\* a call of the service that is not a conversations route
ServiceCall(A) == A /\ resp' = NoResp

ConvAct(A) ==
    A /\ UNCHANGED <<chunkVars, toolVars, chatVars, vecVars, moreVars>>

NextConv ==
    \/ \E c \in ConvIds : ConvAct(ServiceCall(CreateConversation(c)))
    \/ \E c \in ConvIds, role \in ValidRoles, content \in Contents :
           /\ nextRowId <= MaxMsgs
           /\ ConvAct(ServiceCall(AddMessage(c, role, content)))
    \/ \E c \in ConvIds : ConvAct(ClearConversation(c))
    \/ \E c \in ConvIds : ConvAct(DeleteConversationRoute(c))
    \/ ConvAct(DeleteAllRoute)

SpecConv == InitStore /\ [][NextConv]_vars

(***************************************************************************)
(* VectorStoreService and the routes that use it.  Each object keeps its   *)
(* own embedding model; the objects of one process share the collection.   *)
(* An entry of the collection records the model that embedded it; the      *)
(* geometry of the vectors and the ranking of search are left out.         *)
(***************************************************************************)
Filenames == {"facts.txt", "notes.txt"}
NResults == 5

\* m.get(key, default)
Get(m, key, default) == IF key \in DOMAIN m THEN m[key] ELSE default

\* _ensure_model: load embedding_model_name on first use
EnsureModel(v) ==
    IF v.embedding_model = NoModel
    THEN [v EXCEPT !.embedding_model = v.embedding_model_name]
    ELSE v

\* reload_embedding_model(model_name) on one object
ReloadEmbeddingModel(inst, name) ==
    /\ vs' = [vs EXCEPT ![inst] = [embedding_model |-> name,
                                   embedding_model_name |-> name]]
    /\ wanted' = name
    /\ vcall' = [NoCall EXCEPT !.op = "reload", !.inst = inst,
                               !.model = name, !.status = 200]
    /\ UNCHANGED <<collection, nextUuid>>

\* the metadata chunk_text builds for the n chunks of one file
ChunkMetadata(f, n) ==
    [i \in 1..n |-> [filename |-> f, chunk_index |-> i - 1]]

\* add_documents(chunks, metadata): encode with the object's model, fresh
\* ids, collection.add
AddDocuments(inst, metas) ==
    LET v == EnsureModel(vs[inst])
    IN /\ nextUuid + Len(metas) - 1 <= MaxAdded
       /\ collection' = collection \o
              [i \in 1..Len(metas) |->
                  [id |-> nextUuid + i - 1, metadata |-> metas[i],
                   embedded_with |-> v.embedding_model]]
       /\ nextUuid' = nextUuid + Len(metas)
       /\ vs' = [vs EXCEPT ![inst] = v]
       /\ vcall' = [NoCall EXCEPT !.op = "add", !.inst = inst,
                                  !.model = v.embedding_model,
                                  !.filename = metas[1].filename,
                                  !.count = Len(metas), !.status = 200]
       /\ UNCHANGED wanted

\* search(query, n_results): encode the query with the object's model,
\* collection.query
Search(inst, n) ==
    LET v == EnsureModel(vs[inst])
    IN /\ vs' = [vs EXCEPT ![inst] = v]
       /\ vcall' = [NoCall EXCEPT !.op = "search", !.inst = inst,
                                  !.model = v.embedding_model,
                                  !.count = Min(n, Len(collection)),
                                  !.status = 200]
       /\ UNCHANGED <<collection, nextUuid, wanted>>

\* where={"filename": filename}
Matches(m, f) == "filename" \in DOMAIN m /\ m["filename"] = f

\* a delete that stops at the first matching entry
CollectionDelete_First(coll, f) ==
    LET hits == {i \in 1..Len(coll) : Matches(coll[i].metadata, f)}
    IN IF hits = {} THEN coll
       ELSE LET k == CHOOSE i \in hits : \A j \in hits : i <= j
            IN SubSeq(coll, 1, k - 1) \o SubSeq(coll, k + 1, Len(coll))

\* collection.delete(where={"filename": filename})
CollectionDelete(coll, f) ==
    SelectSeq(coll, LAMBDA r : ~Matches(r.metadata, f))

\* delete_document(filename)
DeleteDocument(inst, f) ==
    /\ collection' = CollectionDelete(collection, f)
    /\ vcall' = [NoCall EXCEPT !.op = "delete", !.inst = inst,
                               !.filename = f,
                               !.count = Len(collection) - Len(collection'),
                               !.status = 200]
    /\ UNCHANGED <<nextUuid, vs, wanted>>

\* a scan that reads the first entry only
ListDocuments_FirstPage(coll) ==
    {Get(coll[i].metadata, "filename", "unknown") :
        i \in 1..Min(1, Len(coll))}

\* list_documents: set(m.get("filename", "unknown") for m in metadatas)
ListDocuments(coll) ==
    {Get(coll[i].metadata, "filename", "unknown") : i \in 1..Len(coll)}

ListDocumentsCall(inst) ==
    /\ vcall' = [NoCall EXCEPT !.op = "list", !.inst = inst,
                               !.result = ListDocuments(collection),
                               !.status = 200]
    /\ UNCHANGED <<collection, nextUuid, vs, wanted>>

\* POST /api/settings/embedding_model: request.app.state.vector_store
SetEmbeddingModel(name) == ReloadEmbeddingModel("app_state", name)

\* POST /api/documents/upload, Depends(get_vector_store)
UploadDocument(f, n) == AddDocuments("dependency", ChunkMetadata(f, n))

\* vector_store.search(message, n_results=5) of chat_query and
\* websocket_chat, Depends(get_vector_store)
QuerySearch == Search("dependency", NResults)

\* DELETE /api/documents/{filename}, Depends(get_vector_store)
DeleteDocumentRoute(f) == DeleteDocument("dependency", f)

\* GET /api/documents/list, Depends(get_vector_store)
ListDocumentsRoute == ListDocumentsCall("dependency")

VecAct(A) ==
    A /\ UNCHANGED <<chunkVars, storeVars, toolVars, chatVars, routeVars,
                     moreVars>>

InitVector ==
    /\ VectorIdle /\ ChunkIdle /\ StoreIdle /\ ToolsIdle /\ ChatIdle
    /\ RouteIdle /\ MoreIdle

NextVector ==
    \/ \E name \in ModelNames : VecAct(SetEmbeddingModel(name))
    \/ \E f \in Filenames, n \in 1..MaxDocChunks :
           VecAct(UploadDocument(f, n))
    \/ VecAct(QuerySearch)
    \/ \E f \in Filenames : VecAct(DeleteDocumentRoute(f))
    \/ VecAct(ListDocumentsRoute)

SpecVector == InitVector /\ [][NextVector]_vars

(***************************************************************************)
(* _fetch_tool_data and the APIToolsService methods it awaits.             *)
(***************************************************************************)
\* what an external API call can do: answer, make the method raise
\* (raise_for_status, transport error), or make it return an error dict
\* (get_weather without an API key, get_crypto_price on an unknown symbol)
ApiOutcomes(t) ==
    IF t \in {"crypto", "weather"} THEN {"ok", "raise", "error_dict"}
    ELSE {"ok", "raise"}

Payload(t) == [kind |-> "payload", body |-> t]
ErrorDict(msg) == [kind |-> "error", body |-> msg]

\* the value returned by the APIToolsService method of tool t
ApiReturn(t, env) ==
    IF env[t] = "error_dict" THEN ErrorDict("not available") ELSE Payload(t)

\* data[key] = value
DictSet(dict, key, value) ==
    [k \in (DOMAIN dict) \cup {key} |-> IF k = key THEN value ELSE dict[k]]

\* an except clause that swallows the exception without recording it
CatchToolError_Drop(dict, tool) == dict

\* except Exception as e: data[tool] = {"error": str(e)}
CatchToolError(dict, tool) == DictSet(dict, tool, ErrorDict("exception"))

\* the body of the for loop for one tool
FetchOne(dict, tool, env) ==
    IF tool \in ApiTools
    THEN IF env[tool] = "raise"
         THEN CatchToolError(dict, tool)
         ELSE DictSet(dict, tool, ApiReturn(tool, env))
    ELSE IF tool = "drive"
    THEN DictSet(dict, "drive",
                 ErrorDict("Drive connector requires configuration"))
    ELSE IF tool = "slack"
    THEN DictSet(dict, "slack",
                 ErrorDict("Slack connector requires configuration"))
    ELSE dict

\* data[...] = await api_tools.<method>(...): the coroutine of the call is
\* created and awaited in one expression, so the loop goes on to the next
\* tool only after this call has returned or raised
AwaitCall(log, i, tool) ==
    IF tool \in ApiTools
    THEN log \o <<[ev |-> "start", i |-> i, tool |-> tool],
                  [ev |-> "return", i |-> i, tool |-> tool]>>
    ELSE log

FetchStep ==
    /\ pcTools = "loop"
    /\ ftIdx <= Len(ftTools)
    /\ ftData' = FetchOne(ftData, ftTools[ftIdx], ftEnv)
    /\ ftLog' = AwaitCall(ftLog, ftIdx, ftTools[ftIdx])
    /\ ftIdx' = ftIdx + 1
    /\ UNCHANGED <<ftTools, ftEnv, pcTools>>

FetchReturn ==
    /\ pcTools = "loop"
    /\ ftIdx > Len(ftTools)
    /\ pcTools' = "done"
    /\ UNCHANGED <<ftTools, ftEnv, ftIdx, ftData, ftLog>>

ToolLists == UNION {[1..n -> ToolNames] : n \in 0..MaxTools}

InitTools ==
    /\ ftTools \in ToolLists
    /\ ftEnv \in {e \in [ApiTools -> {"ok", "raise", "error_dict"}] :
                     \A t \in ApiTools : e[t] \in ApiOutcomes(t)}
    /\ ftIdx = 1
    /\ ftData = EmptyDict
    /\ ftLog = <<>>
    /\ pcTools = "loop"
    /\ ChunkIdle
    /\ StoreIdle
    /\ ChatIdle
    /\ RouteIdle
    /\ VectorIdle
    /\ MoreIdle

ToolAct(A) ==
    A /\ UNCHANGED <<chunkVars, storeVars, chatVars, routeVars, vecVars,
                     moreVars>>

NextTools == ToolAct(FetchStep) \/ ToolAct(FetchReturn)

SpecTools == InitTools /\ [][NextTools]_vars

\* the whole call on a list of tools
RECURSIVE FetchToolData(_, _)
FetchToolData(tools, env) ==
    IF tools = <<>> THEN EmptyDict
    ELSE FetchOne(FetchToolData(SubSeq(tools, 1, Len(tools) - 1), env),
                  tools[Len(tools)], env)

(***************************************************************************)
(* chat_query (POST /query) and websocket_chat (/ws).  A handler runs its  *)
(* statements in order; other handlers run while it awaits.                *)
(***************************************************************************)
\* messages of the requests of SpecChat
ChatMsgs == {"hi"}
\* field message of a request: absent, empty, or a text
NoMsg == "<missing>"
MsgInputs == {NoMsg, "", "hi"}
\* conversation_id of a request: absent, or an id the client holds
ConvInputs == {NoOne, "c1"}
\* conversation_id of a request: absent, empty, or an id the client holds
ConvIdInputs == {NoOne, "", "c1"}
\* field tools of a request
ChatTools == {<<>>, <<"crypto">>}
\* filenames of the chunks vector_store.search returns (none when
\* use_documents is false or nothing is stored)
NoSources == {<<>>}
SearchResults == {<<>>, <<"facts.txt">>}
HistoryLimit == 10
Answer == "answer"
ErrorJson == "{error}"
\* the upstream LLM call: it answers; it answers with a non-2xx status (an
\* auth failure included); the host is unreachable; the body is not JSON;
\* the body is JSON without the expected field
LlmOutcomes == {"ok", "http_error", "unreachable", "malformed", "no_content"}
OkOnly == {"ok"}

\* full_response after n tokens of the streamed answer "abc"
Prefix(n) == <<"", "a", "ab", "abc">>[n + 1]

InQuery(h) ==
    q[h].pc \notin {"idle", "done", "failed", "closed", "cancelled",
                    "rejected"}

\* Python truth value of a conversation_id
Truthy(conv) == conv \notin {NoOne, ""}

\* the JSON body FastAPI sends for a request that fails validation
ValidationError == [NoReply EXCEPT !.status = 422, !.fields = {"detail"}]

\* the body the exception handler sends for an exception of the handler
InternalServerError ==
    [NoReply EXCEPT !.status = 500, !.fields = {"error", "type"}]

\* what the client sends on the WebSocket: a query with or without tools
Inbound(tools) == IF tools # <<>> THEN "query_tools" ELSE "query"

\* the "type" of the frame sent at each send_json of websocket_chat
FrameType(from) ==
    CASE from = "send_api" -> "api_data"
      [] from = "start" -> "start"
      [] from = "send_token" -> "token"
      [] from = "end" -> "end"

\* a chat_query without validation of its body
Receive_NoValidation(h, msg, conv, tools) ==
    /\ q[h].pc = "idle"
    /\ h = "ws" => wsOpen
    /\ Len(messages) + 2 * (Cardinality({g \in Handlers : InQuery(g)}) + 1)
           <= MaxChatMsgs
    /\ q' = [q EXCEPT ![h] =
               [IdleQuery EXCEPT !.pc = "resolve", !.msg_in = msg,
                                 !.msg = IF msg = NoMsg THEN "" ELSE msg,
                                 !.conv_in = conv, !.tools = tools]]
    /\ discEarly' = IF h = "ws" THEN FALSE ELSE discEarly
    /\ wsFrames' = IF h = "ws" THEN Append(wsFrames, Inbound(tools))
                   ELSE wsFrames
    /\ UNCHANGED <<wsOpen, llmMode, storeVars>>

\* chat_query: the body is validated against ChatRequest, whose message is
\* a required str (a missing one is answered 422 before the handler runs);
\* websocket_chat: receive_text and json.loads have returned and
\* message_data.get("message", "") has read the message (lines 96-103)
Receive(h, msg, conv, tools) ==
    /\ q[h].pc = "idle"
    /\ h = "ws" => wsOpen
    /\ Len(messages) + 2 * (Cardinality({g \in Handlers : InQuery(g)}) + 1)
           <= MaxChatMsgs
    /\ q' = [q EXCEPT ![h] =
               IF h = "http" /\ msg = NoMsg
               THEN [IdleQuery EXCEPT !.pc = "rejected", !.msg_in = msg,
                                      !.conv_in = conv, !.tools = tools,
                                      !.reply = ValidationError]
               ELSE [IdleQuery EXCEPT !.pc = "resolve", !.msg_in = msg,
                                      !.msg = IF msg = NoMsg THEN "" ELSE msg,
                                      !.conv_in = conv, !.tools = tools]]
    /\ discEarly' = IF h = "ws" THEN FALSE ELSE discEarly
    /\ wsFrames' = IF h = "ws" THEN Append(wsFrames, Inbound(tools))
                   ELSE wsFrames
    /\ UNCHANGED <<wsOpen, llmMode, storeVars>>

\* receive_text on a connection the client has left: WebSocketDisconnect
ReceiveDisconnect(h) ==
    /\ h = "ws"
    /\ q[h].pc = "idle"
    /\ ~wsOpen
    /\ q' = [q EXCEPT ![h].pc = "closed"]
    /\ UNCHANGED <<wsOpen, discEarly, llmMode, wsFrames, storeVars>>

\* conv_id = conversation_id or create_conversation(): an id was supplied
ResolveGiven(h) ==
    /\ q[h].pc = "resolve"
    /\ Truthy(q[h].conv_in)
    /\ q' = [q EXCEPT ![h].pc = "history", ![h].conv_id = q[h].conv_in]
    /\ UNCHANGED <<wsOpen, discEarly, llmMode, wsFrames, storeVars>>

\* conv_id = conversation_id or create_conversation(): none was supplied
ResolveCreate(h, c) ==
    /\ q[h].pc = "resolve"
    /\ ~Truthy(q[h].conv_in)
    /\ \A g \in Handlers : q[g].conv_id # c /\ q[g].conv_in # c
    /\ CreateConversation(c)
    /\ q' = [q EXCEPT ![h].pc = "history", ![h].conv_id = c,
                      ![h].creates = q[h].creates + 1]
    /\ UNCHANGED <<wsOpen, discEarly, llmMode, wsFrames>>

\* the history is read under the id of the request, before it is resolved
ReadHistory_Input(h, tie) ==
    /\ q[h].pc = "history"
    /\ q' = [q EXCEPT ![h].pc = "save_user",
                      ![h].histConv = q[h].conv_in,
                      ![h].history = GetHistory(q[h].conv_in, HistoryLimit,
                                                tie)]
    /\ UNCHANGED <<wsOpen, discEarly, llmMode, wsFrames, storeVars>>

\* history = conversation_service.get_history(conv_id, limit=10)
ReadHistory(h, tie) ==
    /\ q[h].pc = "history"
    /\ q' = [q EXCEPT ![h].pc = "save_user",
                      ![h].histConv = q[h].conv_id,
                      ![h].history = GetHistory(q[h].conv_id, HistoryLimit,
                                                tie)]
    /\ UNCHANGED <<wsOpen, discEarly, llmMode, wsFrames, storeVars>>

\* the write of the user message is left to the end of the handler
SaveUser_Deferred(h) ==
    /\ q[h].pc = "save_user"
    /\ q' = [q EXCEPT ![h].pc = "gather"]
    /\ UNCHANGED <<wsOpen, discEarly, llmMode, wsFrames, storeVars>>

\* conversation_service.add_message(conv_id, "user", message)
SaveUser(h) ==
    /\ q[h].pc = "save_user"
    /\ StoreAdd(q[h].conv_id, "user", q[h].msg)
    /\ q' = [q EXCEPT ![h].pc = "gather", ![h].userRow = nextRowId]
    /\ UNCHANGED <<wsOpen, discEarly, llmMode, wsFrames, clock, dbLock, tx,
                   created, hist>>

\* every external API answers
OkEnv == [t \in ApiTools |-> "ok"]

\* list(api_data.keys()) if api_data else [], with api_data = {} unless
\* tools is non-empty
ApiDataUsed(tools) ==
    IF tools # <<>> THEN DOMAIN FetchToolData(tools, OkEnv) ELSE {}

\* vector_store.search and await _fetch_tool_data, prompt built; chat_query
\* goes on to await generate
Gather(h, found) ==
    /\ q[h].pc = "gather"
    /\ q' = [q EXCEPT ![h].pc = IF h = "http" THEN "generate"
                                ELSE IF q[h].tools # <<>> THEN "send_api"
                                ELSE "start",
                      ![h].searched = TRUE,
                      ![h].sources = found,
                      ![h].api = ApiDataUsed(q[h].tools),
                      ![h].genStarted = (h = "http"),
                      ![h].llmCalls = IF h = "http" THEN 1 ELSE 0]
    /\ UNCHANGED <<wsOpen, discEarly, llmMode, wsFrames, storeVars>>

\* the except clause persists what has been streamed so far
SendFrame_SavePartial(h, from, sent) ==
    /\ q[h].pc = from
    /\ IF wsOpen
       THEN /\ q' = [q EXCEPT ![h] = sent]
            /\ UNCHANGED <<conversations, messages, nextRowId>>
       ELSE /\ StoreAdd(q[h].conv_id, "assistant", q[h].response)
            /\ q' = [q EXCEPT ![h].pc = "closed", ![h].asstRow = nextRowId]
    /\ wsFrames' = IF wsOpen THEN Append(wsFrames, FrameType(from))
                   ELSE wsFrames
    /\ UNCHANGED <<wsOpen, discEarly, llmMode, clock, dbLock, tx, created,
                   hist>>

\* await websocket.send_json(...): the handler goes on as sent; on a
\* connection the client has left the call raises WebSocketDisconnect, which
\* ends the handler (lines 157-158)
SendFrame(h, from, sent) ==
    /\ q[h].pc = from
    /\ q' = [q EXCEPT ![h] = IF wsOpen THEN sent
                             ELSE [q[h] EXCEPT !.pc = "closed"]]
    /\ wsFrames' = IF wsOpen THEN Append(wsFrames, FrameType(from))
                   ELSE wsFrames
    /\ UNCHANGED <<wsOpen, discEarly, llmMode, storeVars>>

\* {"type": "api_data", "data": api_data}
SendApiData(h) ==
    SendFrame(h, "send_api",
              [q[h] EXCEPT !.pc = "start",
                           !.reply.fields = {"api_data"},
                           !.reply.api_data_used = q[h].api])

\* {"type": "start"}
SendStart(h) == SendFrame(h, "start", [q[h] EXCEPT !.pc = "stream"])

\* async for ... in generate_stream(...): the generator is started and
\* sends its request
StreamOpen(h, outcome) ==
    /\ q[h].pc = "stream"
    /\ ~q[h].genStarted
    /\ q' = [q EXCEPT ![h].genStarted = TRUE, ![h].llm = outcome,
                      ![h].llmCalls = q[h].llmCalls + 1]
    /\ UNCHANGED <<wsOpen, discEarly, llmMode, wsFrames, storeVars>>

\* {"type": "token", "content": token}
SendToken(h) == SendFrame(h, "send_token", [q[h] EXCEPT !.pc = "stream"])

\* {"type": "end", "sources": [...], "conversation_id": conv_id}
SendEnd(h) ==
    SendFrame(h, "end",
              [q[h] EXCEPT !.pc = "idle",
                           !.reply.status = 200,
                           !.reply.fields = q[h].reply.fields \cup
                               {"sources", "conversation_id"},
                           !.reply.response = q[h].response,
                           !.reply.sources = q[h].sources,
                           !.reply.conversation_id = q[h].conv_id])

\* a generate that raises whatever goes wrong upstream
GenerateResult_Raise(mode, outcome) ==
    IF outcome = "ok" THEN [raised |-> FALSE, value |-> Answer]
    ELSE [raised |-> TRUE, value |-> ""]

\* LLMService.generate.  Cloud mode: a RequestError and a non-200 status
\* are returned as json.dumps({"error": ...}), a body that is not JSON makes
\* resp.json() raise, a body without choices gives "".  Local mode:
\* the transport error propagates, raise_for_status raises on a non-2xx
\* status, response.json()["content"] raises on a malformed body
GenerateResult(mode, outcome) ==
    IF outcome = "ok" THEN [raised |-> FALSE, value |-> Answer]
    ELSE IF mode = "cloud" /\ outcome \in {"http_error", "unreachable"}
    THEN [raised |-> FALSE, value |-> ErrorJson]
    ELSE IF mode = "cloud" /\ outcome = "no_content"
    THEN [raised |-> FALSE, value |-> ""]
    ELSE [raised |-> TRUE, value |-> ""]

\* response = await llm_service.generate(prompt, system_prompt); an
\* exception leaves chat_query and is answered with a 500
Generate(h, outcome) ==
    /\ q[h].pc = "generate"
    /\ LET r == GenerateResult(llmMode, outcome)
       IN q' = [q EXCEPT ![h] =
              IF r.raised
              THEN [q[h] EXCEPT !.pc = "failed", !.llm = outcome,
                                !.reply = InternalServerError]
              ELSE [q[h] EXCEPT !.pc = "save_asst", !.llm = outcome,
                                !.response = r.value, !.genDone = TRUE]]
    /\ UNCHANGED <<wsOpen, discEarly, llmMode, wsFrames, storeVars>>

\* async for token in generate_stream(...): full_response += token
StreamToken(h) ==
    /\ q[h].pc = "stream"
    /\ q[h].genStarted
    /\ q[h].llm = "ok"
    /\ q[h].n < MaxTokens
    /\ q' = [q EXCEPT ![h].pc = "send_token", ![h].n = q[h].n + 1,
                      ![h].response = Prefix(q[h].n + 1)]
    /\ UNCHANGED <<wsOpen, discEarly, llmMode, wsFrames, storeVars>>

\* the lines of the upstream body that generate_stream passes over without
\* yielding: in both modes a line that does not start with "data: " (the
\* body of a non-2xx answer; the status is not looked at) and a data line
\* without content, in cloud mode also a data line that is not JSON
StreamSkips(mode, outcome) ==
    \/ outcome \in {"http_error", "no_content"}
    \/ mode = "cloud" /\ outcome = "malformed"

\* the end frame is sent straight after the stream, before the answer is
\* stored
StreamEnd_Unsaved(h) ==
    /\ q[h].pc = "stream"
    /\ q[h].genStarted
    /\ q[h].llm = "ok" \/ StreamSkips(llmMode, q[h].llm)
    /\ q' = [q EXCEPT ![h].pc = "end", ![h].genDone = TRUE]
    /\ UNCHANGED <<wsOpen, discEarly, llmMode, wsFrames, storeVars>>

\* generate_stream is exhausted: [DONE] or the transport closed
StreamEnd(h) ==
    /\ q[h].pc = "stream"
    /\ q[h].genStarted
    /\ q[h].llm = "ok" \/ StreamSkips(llmMode, q[h].llm)
    /\ q' = [q EXCEPT ![h].pc = "save_asst", ![h].genDone = TRUE]
    /\ UNCHANGED <<wsOpen, discEarly, llmMode, wsFrames, storeVars>>

\* generate_stream raises (no connection, connection lost in mid-stream,
\* json.loads on a broken data line in local mode); the exception leaves
\* websocket_chat and the server closes the socket with code 1011
StreamRaises(h) ==
    /\ q[h].pc = "stream"
    /\ q[h].genStarted
    /\ ~StreamSkips(llmMode, q[h].llm)
    /\ q' = [q EXCEPT ![h].pc = "failed",
                      ![h].llm = IF q[h].llm = "ok" THEN "unreachable"
                                 ELSE q[h].llm,
                      ![h].reply.status = 1011]
    /\ UNCHANGED <<wsOpen, discEarly, llmMode, wsFrames, storeVars>>

\* conversation_service.add_message(conv_id, "assistant", response);
\* chat_query then returns its dict
SaveAssistant(h) ==
    /\ q[h].pc = "save_asst"
    /\ StoreAdd(q[h].conv_id, "assistant", q[h].response)
    /\ q' = [q EXCEPT ![h] =
               IF h = "http"
               THEN [q[h] EXCEPT !.pc = "done", !.asstRow = nextRowId,
                        !.reply = [status |-> 200,
                                   fields |-> {"response", "sources",
                                               "api_data_used",
                                               "conversation_id"},
                                   response |-> q[h].response,
                                   sources |-> q[h].sources,
                                   api_data_used |-> q[h].api,
                                   conversation_id |-> q[h].conv_id]]
               ELSE [q[h] EXCEPT !.pc = "end", !.asstRow = nextRowId]]
    /\ UNCHANGED <<wsOpen, discEarly, llmMode, wsFrames, clock, dbLock, tx,
                   created, hist>>

\* the client closes the WebSocket
ClientDisconnect ==
    /\ wsOpen
    /\ q["ws"].pc \notin {"closed", "failed", "cancelled"}
    /\ wsOpen' = FALSE
    /\ discEarly' = (InQuery("ws") /\ ~q["ws"].genDone)
    /\ UNCHANGED <<q, llmMode, wsFrames, storeVars>>

\* the places where a handler awaits and can be cancelled
AwaitPcs == {"gather", "generate", "send_api", "start", "stream",
             "send_token", "end"}

\* the handler's task is cancelled while it awaits
Cancel(h) ==
    /\ q[h].pc \in AwaitPcs
    /\ q' = [q EXCEPT ![h].pc = "cancelled"]
    /\ UNCHANGED <<wsOpen, discEarly, llmMode, wsFrames, storeVars>>

InitChat ==
    /\ q = [h \in Handlers |-> IdleQuery]
    /\ wsOpen = TRUE
    /\ discEarly = FALSE
    /\ wsFrames = <<>>
    /\ llmMode \in {"local", "cloud"}
    /\ StoreIdle
    /\ ChunkIdle
    /\ ToolsIdle
    /\ RouteIdle
    /\ VectorIdle
    /\ MoreIdle

ChatAct(A) ==
    A /\ UNCHANGED <<chunkVars, toolVars, routeVars, vecVars, moreVars>>

\* the steps of a handler after it has received its request
Handle(h, founds, llms) ==
    \/ ChatAct(ResolveGiven(h))
    \/ \E c \in ConvIds : ChatAct(ResolveCreate(h, c))
    \/ \E tie \in TieOrders : ChatAct(ReadHistory(h, tie))
    \/ ChatAct(SaveUser(h))
    \/ \E found \in founds : ChatAct(Gather(h, found))
    \/ ChatAct(SendApiData(h))
    \/ ChatAct(SendStart(h))
    \/ \E o \in LlmOutcomes : ChatAct(Generate(h, o))
    \/ \E o \in llms : ChatAct(StreamOpen(h, o))
    \/ ChatAct(StreamToken(h))
    \/ ChatAct(SendToken(h))
    \/ ChatAct(StreamEnd(h))
    \/ ChatAct(StreamRaises(h))
    \/ ChatAct(SaveAssistant(h))
    \/ ChatAct(SendEnd(h))

\* chat_query and websocket_chat serving requests at the same time
NextChat ==
    \/ \E h \in Handlers, msg \in ChatMsgs, conv \in ConvInputs,
          tools \in ChatTools : ChatAct(Receive(h, msg, conv, tools))
    \/ \E h \in Handlers : ChatAct(ReceiveDisconnect(h))
    \/ \E h \in Handlers : Handle(h, NoSources, OkOnly)
    \/ ChatAct(ClientDisconnect)
    \/ \E h \in Handlers : ChatAct(Cancel(h))

SpecChat == InitChat /\ [][NextChat]_vars

\* no other handler has served a request
Solo(h) == \A g \in Handlers \ {h} : q[g] = IdleQuery

\* requests of every shape: one chat_query, or the successive queries of
\* one WebSocket connection
NextQuery ==
    \/ \E h \in Handlers, msg \in MsgInputs, conv \in ConvIdInputs,
          tools \in ChatTools :
           /\ Solo(h)
           /\ ChatAct(Receive(h, msg, conv, tools))
    \/ \E h \in Handlers : ChatAct(ReceiveDisconnect(h))
    \/ \E h \in Handlers : Handle(h, SearchResults, LlmOutcomes)
    \/ ChatAct(ClientDisconnect)

SpecQuery == InitChat /\ [][NextQuery]_vars

(***************************************************************************)
(* LLMService.generate_stream (services/llm_service.py).                   *)
(*                                                                         *)
(* A received line is its text up to and including "data: " (prefix) and   *)
(* the rest (payload); when the payload is JSON text, json is the value    *)
(* json.loads gives.  A JSON object is kept by the members the code reads: *)
(* choices (absent or a list), of its first element delta (absent, null or *)
(* an object) and the delta's content, and the top-level content.          *)
(***************************************************************************)
NoKey == "<absent>"
JsonNull == "<null>"
NoJson == [choices |-> NoKey, list |-> <<>>, content |-> NoKey]

Line(prefix, payload, json) ==
    [prefix |-> prefix, payload |-> payload, json |-> json]
Choice(delta, content) == [delta |-> delta, content |-> content]

\* the chunk of an OpenAI-compatible stream carrying the text c
DeltaLine(c) ==
    Line("data: ", "json", [choices |-> "list",
                            list |-> <<Choice("object", c)>>,
                            content |-> NoKey])
\* the chunk of a llama.cpp /completion stream carrying the text c
CompletionLine(c) ==
    Line("data: ", "json", [choices |-> NoKey, list |-> <<>>,
                            content |-> c])

StreamLines ==
    { Line("", "", NoJson),                    \* empty line between events
      Line(": ", "ping", NoJson),              \* SSE comment
      Line("data: ", "[DONE]", NoJson),
      Line("data: ", "[DONE] ", NoJson),
      Line("data: ", "{oops", NoJson),         \* not JSON
      DeltaLine("a"), DeltaLine("b"), DeltaLine(""),
      \* delta without content, null delta
      DeltaLine(NoKey),
      Line("data: ", "json", [choices |-> "list",
                              list |-> <<Choice(JsonNull, NoKey)>>,
                              content |-> NoKey]),
      \* "choices": []
      Line("data: ", "json", [choices |-> "list", list |-> <<>>,
                              content |-> NoKey]),
      \* an object without choices and without content
      Line("data: ", "json", NoJson),
      CompletionLine("a"), CompletionLine("") }

\* str.strip of a payload
StripPayload(p) == IF p = "[DONE] " THEN "[DONE]" ELSE p

\* line.strip() == "data: [DONE]"
IsDoneLine(line) ==
    line.prefix = "data: " /\ StripPayload(line.payload) = "[DONE]"

\* json.loads(line[6:]) raises JSONDecodeError
JsonDecodeError(line) == line.payload # "json"

\* what one iteration of the cloud loop does with a line (lines 235-247)
CloudLine(line) ==
    IF line.prefix # "data: " THEN [act |-> "continue", content |-> ""]
    ELSE IF IsDoneLine(line) THEN [act |-> "break", content |-> ""]
    ELSE IF JsonDecodeError(line) THEN [act |-> "continue", content |-> ""]
    ELSE IF line.json.choices = "list" /\ line.json.list = <<>>
         THEN [act |-> "raise", content |-> ""]       \* [][0]: IndexError
    ELSE LET choice == IF line.json.choices = NoKey
                       THEN Choice(NoKey, NoKey)      \* [{}][0]
                       ELSE line.json.list[1]
             content == IF choice.delta = "object" THEN choice.content
                        ELSE NoKey                    \* delta or {}
         IN  IF content \in {NoKey, JsonNull, ""}
             THEN [act |-> "continue", content |-> ""]
             ELSE [act |-> "yield", content |-> content]

\* what one iteration of the local loop does with a line (lines 264-267)
LocalLine(line) ==
    IF line.prefix # "data: " THEN [act |-> "continue", content |-> ""]
    ELSE IF JsonDecodeError(line) THEN [act |-> "raise", content |-> ""]
    ELSE IF line.json.content # NoKey
         THEN [act |-> "yield", content |-> line.json.content]
    ELSE [act |-> "continue", content |-> ""]

\* async for line in response.aiter_lines(): the next line arrives
StreamLine ==
    /\ pcStream = "iter"
    /\ gsIdx <= Len(gsLines)
    /\ LET r == IF llmMode = "cloud" THEN CloudLine(gsLines[gsIdx])
                ELSE LocalLine(gsLines[gsIdx])
       IN  /\ gsYield' = IF r.act = "yield"
                         THEN Append(gsYield, r.content) ELSE gsYield
           /\ pcStream' = CASE r.act = "break" -> "returned"
                            [] r.act = "raise" -> "raised"
                            [] OTHER -> "iter"
    /\ gsIdx' = gsIdx + 1
    /\ UNCHANGED gsLines

\* the transport closes: the loop ends and the generator returns
StreamClose ==
    /\ pcStream = "iter"
    /\ gsIdx > Len(gsLines)
    /\ pcStream' = "returned"
    /\ UNCHANGED <<gsLines, gsIdx, gsYield>>

StreamAct(A) ==
    A /\ UNCHANGED <<chunkVars, storeVars, toolVars, chatVars, routeVars,
                     vecVars, promptVars, provVars, dlVars>>

RECURSIVE SeqsUpTo(_, _)
\* the sequences over S of length at most n
SeqsUpTo(S, n) ==
    IF n = 0 THEN {<<>>}
    ELSE LET shorter == SeqsUpTo(S, n - 1)
         IN  shorter \cup {Append(s, x) : s \in shorter, x \in S}

\* generate_stream has been called and the request was sent
InitStream ==
    /\ gsLines \in SeqsUpTo(StreamLines, MaxLines)
    /\ gsIdx = 1
    /\ gsYield = <<>>
    /\ pcStream = "iter"
    /\ q = [h \in Handlers |-> IdleQuery]
    /\ wsOpen = TRUE
    /\ discEarly = FALSE
    /\ llmMode \in {"local", "cloud"}
    /\ wsFrames = <<>>
    /\ ChunkIdle /\ StoreIdle /\ ToolsIdle /\ RouteIdle /\ VectorIdle
    /\ PromptIdle /\ ProviderIdle /\ DownloadIdle

NextStream ==
    \/ StreamAct(StreamLine)
    \/ StreamAct(StreamClose)

SpecStream == InitStream /\ [][NextStream]_vars

(***************************************************************************)
(* LLMService.build_rag_prompt (services/llm_service.py).                  *)
(*                                                                         *)
(* A Python string is a sequence of pieces: the literals of the f-strings  *)
(* and the texts put between them.  The texts of the arguments (a query, a *)
(* message content, a chunk content, a filename, a tool result) are        *)
(* opaque and differ from every literal.                                   *)
(***************************************************************************)
HistoryHeader == "Conversation History:"
QuestionHeader == "Current Question: "
ContextHeader == "Document Context:"
ExternalHeader == "External Data:"
\* lines 314-315
ClosingInstruction ==
    "Based on the above context, data, and conversation history, provide a comprehensive answer. If the information is not in the context, say so clearly."
HistoryTail == 6

RECURSIVE JoinStr(_, _)
\* sep.join(strs)
JoinStr(strs, sep) ==
    IF strs = <<>> THEN <<>>
    ELSE IF Len(strs) = 1 THEN strs[1]
    ELSE strs[1] \o sep \o JoinStr(Tail(strs), sep)

\* lst[-n:]
LastN(lst, n) == SubSeq(lst, Max(1, Len(lst) - n + 1), Len(lst))

\* line 289
HistoryLine(msg) ==
    <<IF msg.role = "user" THEN "User" ELSE "Assistant", ": ", msg.content>>

\* lines 286-293: what is appended to prompt_parts for the history
HistoryParts(conversation_history) ==
    IF conversation_history # <<>>
    THEN LET last == LastN(conversation_history, HistoryTail)
             history_text ==
                 JoinStr([i \in 1..Len(last) |-> HistoryLine(last[i])],
                         <<"\n">>)
         IN  << <<HistoryHeader, "\n">> \o history_text \o <<"\n">> >>
    ELSE <<>>

\* line 296
QuestionPart(query) == <<QuestionHeader, query, "\n">>

\* line 301
ChunkText(c) ==
    <<"[Source: ", Get(c.metadata, "filename", "unknown"), "]", "\n",
      c.content>>

\* lines 299-307, with the header put out whether or not there is a chunk
ContextParts_Always(context_chunks) ==
    LET context_text ==
            JoinStr([i \in 1..Len(context_chunks) |->
                         ChunkText(context_chunks[i])], <<"\n", "\n">>)
    IN  << <<ContextHeader, "\n">> \o context_text \o <<"\n">> >>

\* lines 299-307: what is appended to prompt_parts for the chunks
ContextParts(context_chunks) ==
    LET context_text ==
            JoinStr([i \in 1..Len(context_chunks) |->
                         ChunkText(context_chunks[i])], <<"\n", "\n">>)
    IN  IF context_text # <<>>
        THEN << <<ContextHeader, "\n">> \o context_text \o <<"\n">> >>
        ELSE <<>>

\* json.dumps(api_data, indent=2) of a dict, kept in insertion order
JsonDumps(items) ==
    IF items = <<>> THEN <<"{}">>
    ELSE <<"{", "\n">>
         \o JoinStr([i \in 1..Len(items) |->
                        <<"  ", items[i].key, ": ", items[i].value>>],
                    <<",", "\n">>)
         \o <<"\n", "}">>

\* lines 310-311: api_data is None or a dict; both None and {} are falsy
ExternalParts(api_data) ==
    IF ~api_data.none /\ api_data.items # <<>>
    THEN << <<ExternalHeader, "\n">> \o JsonDumps(api_data.items)
            \o <<"\n">> >>
    ELSE <<>>

\* prompt_parts with the document context put before the question
PromptParts_ContextFirst(query, context_chunks, api_data, conversation_history) ==
    HistoryParts(conversation_history) \o ContextParts(context_chunks)
    \o <<QuestionPart(query)>> \o ExternalParts(api_data)
    \o << <<ClosingInstruction>> >>

\* prompt_parts at line 318
PromptParts(query, context_chunks, api_data, conversation_history) ==
    HistoryParts(conversation_history) \o <<QuestionPart(query)>>
    \o ContextParts(context_chunks) \o ExternalParts(api_data)
    \o << <<ClosingInstruction>> >>

BuildRagPrompt(query, context_chunks, api_data, conversation_history) ==
    JoinStr(PromptParts(query, context_chunks, api_data,
                        conversation_history), <<"\n">>)

\* one call of build_rag_prompt with the arguments chosen by InitPrompt
BuildRagPromptCall ==
    /\ pcPrompt = "call"
    /\ bpOut' = BuildRagPrompt(bpQuery, bpChunks, bpApi, bpHistory)
    /\ pcPrompt' = "returned"
    /\ UNCHANGED <<bpQuery, bpChunks, bpApi, bpHistory>>

PromptAct(A) ==
    A /\ UNCHANGED <<chunkVars, storeVars, toolVars, chatVars, routeVars,
                     vecVars, streamVars, provVars, dlVars>>

\* the arguments a caller may pass
PromptQueries == {"what?", ""}
PromptMessages == {[role |-> "user", content |-> "hi"],
                   [role |-> "assistant", content |-> "hello"]}
PromptChunks == {[metadata |-> [filename |-> "a.txt"], content |-> "text"],
                 [metadata |-> EmptyDict, content |-> "text"]}
NoApiData == [none |-> TRUE, items |-> <<>>]
PromptApiData ==
    {NoApiData} \cup
    {[none |-> FALSE, items |-> i] :
        i \in {<<>>, <<[key |-> "crypto", value |-> "42"]>>,
               <<[key |-> "crypto", value |-> "42"],
                 [key |-> "weather", value |-> "sunny"]>>}}

InitPrompt ==
    /\ bpQuery \in PromptQueries
    /\ bpChunks \in SeqsUpTo(PromptChunks, MaxPromptChunks)
    /\ bpApi \in PromptApiData
    /\ bpHistory \in SeqsUpTo(PromptMessages, MaxPromptHistory)
    /\ bpOut = <<>>
    /\ pcPrompt = "call"
    /\ ChunkIdle /\ StoreIdle /\ ToolsIdle /\ ChatIdle /\ RouteIdle
    /\ VectorIdle /\ StreamIdle /\ ProviderIdle /\ DownloadIdle

NextPrompt == PromptAct(BuildRagPromptCall)

SpecPrompt == InitPrompt /\ [][NextPrompt]_vars

(***************************************************************************)
(* Provider resolution: ConfigService.__init__ and get_llm_config          *)
(* (services/config_service.py) and the properties of LLMService           *)
(* (services/llm_service.py).  A Python dict is a function on its keys;    *)
(* the nested dicts of settings.json are kept by the keys that provider    *)
(* resolution reads: "local.base_url" is llm["local"]["base_url"] and      *)
(* "cloud.base_url" is the base_url of the cloud_service_config entry of   *)
(* the chosen cloud provider.                                              *)
(***************************************************************************)
PyNone == "<None>"
EnvBaseUrl == "http://localhost:8080"          \* settings.llm_base_url
StoredLocalUrl == "http://llama.lan:8080"
StoredCustomUrl == "https://llm.example/v1"
OpenRouterUrl == "https://openrouter.ai/api/v1"
OpenAiUrl == "https://api.openai.com/v1"

\* str.lower on the values of settings.llm_provider
Lower(s) ==
    CASE s = "LOCAL" -> "local"
      [] s = "OpenRouter" -> "openrouter"
      [] OTHER -> s

\* _migrate_if_needed: an old-format llm section with a known provider is
\* rewritten in the new format
Migrate(settings) ==
    IF ~settings.present THEN settings
    ELSE LET llm == settings.llm
         IN  IF "provider_type" \in DOMAIN llm \/ "provider" \notin DOMAIN llm
             THEN settings
             ELSE CASE llm["provider"] = "openrouter" ->
                         [settings EXCEPT !.llm =
                             ("provider_type" :> "cloud"
                              @@ "cloud_provider" :> "openrouter")]
                    [] llm["provider"] = "openai-compatible" ->
                         [settings EXCEPT !.llm =
                             ("provider_type" :> "cloud"
                              @@ "cloud_provider" :> "custom"
                              @@ "cloud.base_url" :> Get(llm, "base_url", ""))]
                    [] llm["provider"] = "local" ->
                         [settings EXCEPT !.llm =
                             ("provider_type" :> "local"
                              @@ "local.base_url" :>
                                     Get(llm, "base_url", EnvBaseUrl))]
                    [] OTHER -> settings

\* get_llm_config
GetLlmConfig(settings, env) ==
    IF settings.present /\ "provider_type" \in DOMAIN settings.llm
    THEN LET llm == settings.llm
             base == IF llm["provider_type"] = "cloud"
                     THEN ("provider_type" :> "cloud"
                           @@ "cloud_provider" :>
                                  Get(llm, "cloud_provider", PyNone))
                     ELSE ("provider_type" :> llm["provider_type"])
             key == IF llm["provider_type"] = "cloud" THEN "cloud.base_url"
                    ELSE "local.base_url"
         IN  IF key \in DOMAIN llm
             THEN ("base_url" :> llm[key]) @@ base
             ELSE base
    ELSE ("provider" :> env @@ "base_url" :> EnvBaseUrl)

\* LLMService.provider_type
ProviderType(env, cfg) ==
    IF "provider_type" \in DOMAIN cfg THEN cfg["provider_type"]
    ELSE LET provider == IF env # "" THEN env
                         ELSE Get(cfg, "provider", "local")
         IN  IF provider \in {"openrouter", "openai", "openai-compatible"}
             THEN "cloud" ELSE "local"

\* LLMService.cloud_provider
CloudProvider(env, cfg) ==
    IF Lower(env) = "local" THEN PyNone
    ELSE IF "cloud_provider" \in DOMAIN cfg THEN cfg["cloud_provider"]
    ELSE LET provider == IF env # "" THEN env
                         ELSE Get(cfg, "provider", PyNone)
         IN  CASE provider = "openrouter" -> "openrouter"
               [] provider = "openai" -> "openai"
               [] provider = "openai-compatible" -> "custom"
               [] OTHER -> PyNone

\* LLMService.is_openrouter
IsOpenrouter(env, cfg) ==
    IF Lower(env) = "local" THEN FALSE
    ELSE IF Lower(env) = "openrouter" THEN TRUE
    ELSE ProviderType(env, cfg) = "cloud"
         /\ CloudProvider(env, cfg) = "openrouter"

\* LLMService.is_openai
IsOpenai(env, cfg) ==
    ProviderType(env, cfg) = "cloud" /\ CloudProvider(env, cfg) = "openai"

\* LLMService.is_local
IsLocal(env, cfg) ==
    IF Lower(env) = "local" THEN TRUE
    ELSE ProviderType(env, cfg) = "local"

\* the branch of LLMService.base_url that returns
BaseUrlBranch(env, cfg) ==
    IF Lower(env) = "local" THEN "env_local"
    ELSE IF IsOpenrouter(env, cfg) THEN "openrouter"
    ELSE IF IsOpenai(env, cfg) THEN "openai"
    ELSE IF CloudProvider(env, cfg) = "custom" THEN "custom"
    ELSE "local"

\* LLMService.base_url
BaseUrl(env, cfg) ==
    CASE BaseUrlBranch(env, cfg) = "env_local" -> EnvBaseUrl
      [] BaseUrlBranch(env, cfg) = "openrouter" -> OpenRouterUrl
      [] BaseUrlBranch(env, cfg) = "openai" -> OpenAiUrl
      [] BaseUrlBranch(env, cfg) = "custom" -> Get(cfg, "base_url", "")
      [] OTHER -> Get(cfg, "base_url", EnvBaseUrl)

\* the request generate and generate_stream send: the cloud shape unless
\* is_local
RequestOf(env, cfg, stream) ==
    [url |-> BaseUrl(env, cfg),
     path |-> IF ~IsLocal(env, cfg) THEN "/chat/completions"
              ELSE "/completion",
     stream |-> stream]

NoRequest == [url |-> "", path |-> "", stream |-> FALSE]

\* ConfigService.__init__ and LLMService.__init__: settings.json is read,
\* migrated, and the LLM configuration is taken once
Construct ==
    /\ pcProv = "start"
    /\ userSettings' = Migrate(userSettings)
    /\ llmConfig' = GetLlmConfig(Migrate(userSettings), envProvider)
    /\ pcProv' = "ready"
    /\ UNCHANGED <<envProvider, llmRequest>>

\* generate (stream = FALSE) or generate_stream (stream = TRUE) sends its
\* request
SendRequest(stream) ==
    /\ pcProv = "ready"
    /\ llmRequest' = RequestOf(envProvider, llmConfig, stream)
    /\ pcProv' = "sent"
    /\ UNCHANGED <<envProvider, userSettings, llmConfig>>

ProvAct(A) ==
    A /\ UNCHANGED <<chunkVars, storeVars, toolVars, chatVars, routeVars,
                     vecVars, streamVars, promptVars, dlVars>>

\* values of LLM_PROVIDER in the environment
EnvProviders ==
    {"local", "openrouter", "openai", "openai-compatible", "", "LOCAL",
     "OpenRouter"}

\* the llm section of settings.json: absent, in the old format, or in the
\* new format for a local or a cloud provider
StoredSettings ==
    {[present |-> FALSE, llm |-> EmptyDict]}
    \cup {[present |-> TRUE, llm |-> ("provider" :> p)] :
             p \in {"openrouter", "openai-compatible", "local", "openai"}}
    \cup {[present |-> TRUE, llm |-> ("provider_type" :> "local")],
          [present |-> TRUE, llm |-> ("provider_type" :> "local"
                                      @@ "local.base_url" :> StoredLocalUrl)],
          [present |-> TRUE, llm |-> ("provider_type" :> "cloud")],
          [present |-> TRUE, llm |-> ("provider_type" :> "cloud"
                                      @@ "cloud_provider" :> "openrouter")],
          [present |-> TRUE, llm |-> ("provider_type" :> "cloud"
                                      @@ "cloud_provider" :> "openai")],
          [present |-> TRUE, llm |-> ("provider_type" :> "cloud"
                                      @@ "cloud_provider" :> "custom")],
          [present |-> TRUE, llm |-> ("provider_type" :> "cloud"
                                      @@ "cloud_provider" :> "custom"
                                      @@ "cloud.base_url" :> StoredCustomUrl)]}

InitProvider ==
    /\ envProvider \in EnvProviders
    /\ userSettings \in StoredSettings
    /\ llmConfig = EmptyDict
    /\ llmRequest = NoRequest
    /\ pcProv = "start"
    /\ ChunkIdle /\ StoreIdle /\ ToolsIdle /\ ChatIdle /\ RouteIdle
    /\ VectorIdle /\ StreamIdle /\ PromptIdle /\ DownloadIdle

NextProvider ==
    \/ ProvAct(Construct)
    \/ \E stream \in BOOLEAN : ProvAct(SendRequest(stream))

SpecProvider == InitProvider /\ [][NextProvider]_vars

(***************************************************************************)
(* Model downloads: routers/models.py over the ModelManager singleton.     *)
(* A route handler has no await and runs in one step; its background task  *)
(* starts after the response has been sent, and the download itself runs   *)
(* in an executor thread.                                                  *)
(***************************************************************************)
\* f"{repo_id}/{filename}" of a GGUF request, model_name of an embedding one
LlmDownloadIds == {"org/repo/m.gguf"}
EmbeddingDownloadIds == {"org/embedder"}
DownloadIds == LlmDownloadIds \cup EmbeddingDownloadIds

NoStatus == "none"
NoResponse == [download_id |-> NoOne, status |-> NoOne]

\* ModelManager.get_download_status: active_downloads.get(download_id)
GetDownloadStatus(id) == active_downloads[id]

\* the check at the head of both download routes
AlreadyDownloading(id) ==
    GetDownloadStatus(id) # NoStatus /\ GetDownloadStatus(id) = "downloading"

\* the body of a download route: answer already_downloading, or add the
\* background task and answer started
DownloadRoute(id) ==
    /\ dlRequests < MaxRequests
    /\ dlRequests' = dlRequests + 1
    /\ IF AlreadyDownloading(id)
       THEN /\ dlResp' = [download_id |-> id, status |-> "already_downloading"]
            /\ UNCHANGED bgTasks
       ELSE /\ bgTasks' = [bgTasks EXCEPT ![id] = @ + 1]
            /\ dlResp' = [download_id |-> id, status |-> "started"]
    /\ UNCHANGED <<active_downloads, dlRunning>>

\* POST /llm/download
DownloadLlmModel(id) == id \in LlmDownloadIds /\ DownloadRoute(id)

\* POST /embedding/download
DownloadEmbeddingModel(id) == id \in EmbeddingDownloadIds /\ DownloadRoute(id)

\* a background task starts: download_gguf_model or download_embedding_model
\* marks the id as downloading and hands the download to the executor
DownloadTask(id) ==
    /\ bgTasks[id] > 0
    /\ bgTasks' = [bgTasks EXCEPT ![id] = @ - 1]
    /\ active_downloads' = [active_downloads EXCEPT ![id] = "downloading"]
    /\ dlRunning' = [dlRunning EXCEPT ![id] = @ + 1]
    /\ UNCHANGED <<dlRequests, dlResp>>

\* the executor returns or raises: the id is marked completed or error
DownloadDone(id, ok) ==
    /\ dlRunning[id] > 0
    /\ dlRunning' = [dlRunning EXCEPT ![id] = @ - 1]
    /\ active_downloads' =
           [active_downloads EXCEPT ![id] = IF ok THEN "completed" ELSE "error"]
    /\ UNCHANGED <<dlRequests, dlResp, bgTasks>>

DownloadAct(A) ==
    A /\ UNCHANGED <<chunkVars, storeVars, toolVars, chatVars, routeVars,
                     vecVars, streamVars, promptVars, provVars>>

\* ModelManager.__init__ and no request yet
InitDownload ==
    /\ active_downloads = [id \in DownloadIds |-> NoStatus]
    /\ bgTasks = [id \in DownloadIds |-> 0]
    /\ dlRunning = [id \in DownloadIds |-> 0]
    /\ dlRequests = 0
    /\ dlResp = NoResponse
    /\ ChunkIdle /\ StoreIdle /\ ToolsIdle /\ ChatIdle /\ RouteIdle
    /\ VectorIdle /\ StreamIdle /\ PromptIdle /\ ProviderIdle

NextDownload ==
    \/ \E id \in DownloadIds : DownloadAct(DownloadLlmModel(id))
    \/ \E id \in DownloadIds : DownloadAct(DownloadEmbeddingModel(id))
    \/ \E id \in DownloadIds : DownloadAct(DownloadTask(id))
    \/ \E id \in DownloadIds, ok \in BOOLEAN : DownloadAct(DownloadDone(id, ok))

SpecDownload == InitDownload /\ [][NextDownload]_vars

(***************************************************************************)
(* Properties of ConversationService.                                      *)
(***************************************************************************)
\* C1: get_history with a limit of at least the number of stored messages
\* returns the messages of the conversation in insertion order, oldest
\* first, also when several of them carry the same created_at.
C1_InsertionOrder ==
    (hist.conv # NoOne /\ hist.limit >= Len(hist.log)) =>
        hist.rows = hist.log

\* C2: get_history(id, limit=N) returns exactly the min(N, count) most
\* recently inserted messages of the conversation, the tail of the log,
\* and never more than N entries.
C2_TailOfLog ==
    hist.conv # NoOne =>
        LET k == Min(hist.limit, Len(hist.log))
        IN /\ Len(hist.rows) <= hist.limit
           /\ hist.rows = SubSeq(hist.log, Len(hist.log) - k + 1,
                                 Len(hist.log))

HasMessage(c) == \E m \in Range(messages) : m.conversation_id = c

\* what one step may do to the committed tables
StoreStep ==
    \/ /\ conversations' = conversations
       /\ messages' = messages
    \/ /\ messages' = messages
       /\ \E c \in ConvIds \ conversations :
              /\ conversations' = conversations \cup {c}
              /\ c \in created'
    \/ /\ Len(messages') = Len(messages) + 1
       /\ SubSeq(messages', 1, Len(messages)) = messages
       /\ conversations' =
              conversations \cup {messages'[Len(messages')].conversation_id}

\* C7: add_message is atomic.  The conversation upsert and the message
\* insert become visible together or not at all: no row of conversations
\* written by add_message is visible without a message, no message without
\* its conversation row, every step commits both or neither, and the step
\* in which an add_message fails leaves the tables unchanged.
C7_Atomic ==
    /\ [](/\ \A c \in conversations \ created : HasMessage(c)
          /\ \A m \in Range(messages) : m.conversation_id \in conversations)
    /\ [][/\ StoreStep
          /\ (\E w \in Writers : /\ tx[w].pc \notin {"failed", "busy"}
                                 /\ tx'[w].pc \in {"failed", "busy"})
                 => (conversations' = conversations /\ messages' = messages)
         ]_vars

\* an add_message on an absent conversation id has failed on its role while
\* the other caller, refused by the write lock, has failed as well
C7_Witness ==
    \E w \in Writers, v \in Writers :
        /\ tx[w].pc = "failed"
        /\ tx[w].role \notin ValidRoles
        /\ tx[w].conv \notin conversations
        /\ tx[v].pc = "busy"
        /\ messages # <<>>

\* C24: add_message with a role other than 'user' or 'assistant' fails with
\* sqlite3.IntegrityError at its INSERT INTO messages, so every stored
\* message has role user or assistant.
C24_RoleChecked ==
    /\ \A m \in Range(messages) : m.role \in ValidRoles
    /\ \A w \in Writers :
           tx[w].role \notin ValidRoles => tx[w].pc \in {"upserted", "failed"}

\* an add_message with role system has failed at its second statement,
\* after messages of valid roles were stored
C24_Witness ==
    \E w \in Writers :
        /\ tx[w].pc = "failed"
        /\ tx[w].role = "system"
        /\ \E m \in Range(messages) : m.role = "user"
        /\ \E m \in Range(messages) : m.role = "assistant"

\* C25: an add_message on a conversation id that does not exist creates the
\* conversation and stores the message, so that conversation_exists(id) is
\* true and get_history(id) contains the message afterward; on an existing
\* id it adds no conversation row.
C25_AddMessageCreates ==
    /\ [](\A c \in ConvIds :
            HasMessage(c) =>
                /\ ConversationExists(c)
                /\ \A tie \in TieOrders :
                       RowDict(RowsOf(c)[Len(RowsOf(c))])
                           \in Range(GetHistory(c, HistoryLimit, tie)))
    /\ [][Len(messages') = Len(messages) + 1 =>
             conversations' =
                 conversations \cup {messages'[Len(messages')].conversation_id}
         ]_vars

\* add_message has stored a message under an id that create_conversation
\* never made, and another under an id that it made
C25_Witness ==
    /\ \E c \in conversations \ created : HasMessage(c)
    /\ \E c \in created : HasMessage(c)

\* C19: deleting a conversation succeeds and leaves neither its messages nor
\* its row, also when the id is absent; deleting all conversations succeeds
\* and leaves no message and no conversation row.
C19_DeleteCascadesIdempotent ==
    /\ resp.op = "delete" =>
           /\ resp.status = 200
           /\ resp.conv \notin conversations
           /\ RowsOf(resp.conv) = <<>>
    /\ resp.op = "delete_all" =>
           /\ resp.status = 200
           /\ conversations = {}
           /\ messages = <<>>

(***************************************************************************)
(* Properties of the chat handlers.                                        *)
(***************************************************************************)
\* the committed row of table messages with the given id exists and holds
\* the given values
RowIs(id, c, role, content) ==
    \E i \in 1..Len(messages) :
        /\ messages[i].id = id
        /\ messages[i].conversation_id = c
        /\ messages[i].role = role
        /\ messages[i].content = content

C4_UserSavedBeforeGeneration ==
    \A h \in Handlers :
        q[h].genStarted =>
            /\ q[h].userRow # 0
            /\ RowIs(q[h].userRow, q[h].conv_id, "user", q[h].msg)

\* generation has failed, on both paths, and each user message is stored
\* without an assistant message
C4_Witness ==
    \A h \in Handlers :
        /\ q[h].pc = "failed"
        /\ q[h].genStarted
        /\ RowIs(q[h].userRow, q[h].conv_id, "user", q[h].msg)
        /\ q[h].asstRow = 0

\* the caller has been sent the outcome of the query of handler h
Delivered(h) == q[h].reply.status \notin {0, 422}

\* where the exchange of one WebSocket query stands after one more text or
\* frame: "bad" when that one is out of place
FrameStep(st, e) ==
    CASE st = "idle" /\ e = "query" -> "received"
      [] st = "idle" /\ e = "query_tools" -> "received_tools"
      [] st = "received" /\ e = "start" -> "started"
      [] st = "received_tools" /\ e = "api_data" -> "api_data_sent"
      [] st = "api_data_sent" /\ e = "start" -> "started"
      [] st = "started" /\ e = "token" -> "started"
      [] st = "started" /\ e = "end" -> "idle"
      [] OTHER -> "bad"

RECURSIVE FrameRun(_, _)
FrameRun(st, log) ==
    IF log = <<>> THEN st
    ELSE FrameRun(FrameStep(st, Head(log)), Tail(log))

NoneAborted ==
    \A h \in Handlers : q[h].pc \notin {"cancelled", "closed", "failed"}

\* C27: when every generation succeeds, the messages written to a
\* conversation alternate user, assistant in insertion order, and the
\* history loaded for a query holds no user message without its assistant
\* reply, also when two queries for the same conversation id are in flight
\* at the same time.
C27_TurnsAlternate ==
    NoneAborted =>
        /\ \A c \in ConvIds :
               \A i \in 1..Len(RowsOf(c)) :
                   RowsOf(c)[i].role =
                       IF i % 2 = 1 THEN "user" ELSE "assistant"
        /\ \A h \in Handlers :
               \A i \in 1..Len(q[h].history) :
                   q[h].history[i].role = "user" =>
                       /\ i < Len(q[h].history)
                       /\ q[h].history[i + 1].role = "assistant"

\* C11: every outcome of a query delivered to the caller, of a failed
\* generation as of a successful one, carries the filenames of the retrieved
\* chunks and the names of the tools that were invoked.  On the WebSocket
\* path the tool names count as carried by the api_data frame, which is
\* sent when tools were requested.
C11_OutcomeCarriesProvenance ==
    \A h \in Handlers :
        Delivered(h) =>
            /\ "sources" \in q[h].reply.fields
            /\ q[h].reply.sources = q[h].sources
            /\ IF h = "http"
               THEN /\ "api_data_used" \in q[h].reply.fields
                    /\ q[h].reply.api_data_used = q[h].api
               ELSE q[h].tools # <<>> =>
                        /\ "api_data" \in q[h].reply.fields
                        /\ q[h].reply.api_data_used = q[h].api

\* the upstream LLM call of the query of handler h has failed
UpstreamFailed(h) == q[h].llm \notin {NoOne, "ok"}

\* C12: a query whose upstream LLM call failed is reported to the caller as
\* failed (an error response, or at least the error payload as its text),
\* never as an answer, and the call is made once.
C12_FailureReported ==
    \A h \in Handlers :
        /\ q[h].llmCalls <= 1
        /\ (UpstreamFailed(h) /\ Delivered(h)) =>
               \/ q[h].reply.status \in {500, 1011}
               \/ q[h].reply.response = ErrorJson

\* C28: when the generation of a query fails, no assistant message is
\* stored for that query: neither an upstream error nor the empty result
\* of a failed stream becomes an assistant turn that a later query would
\* read as history.
C28_FailedNotPersisted ==
    /\ \A h \in Handlers : UpstreamFailed(h) => q[h].asstRow = 0
    /\ \A m \in Range(messages) :
           m.role = "assistant" => m.content # ErrorJson

\* C13 as claimed: on a non-2xx upstream response generate returns the
\* error payload and does not raise, in local mode as in cloud mode.
C13_ErrorPayloadBothModes ==
    q["http"].llm = "http_error" =>
        /\ q["http"].pc # "failed"
        /\ q["http"].response = ErrorJson

\* C13 as amended: on a non-2xx upstream response generate returns the
\* error payload without raising in cloud mode, and raises without
\* returning anything in local mode.
C13_ErrorPayloadCloudOnly ==
    q["http"].llm = "http_error" =>
        IF llmMode = "cloud"
        THEN /\ q["http"].pc # "failed"
             /\ q["http"].genDone
             /\ q["http"].response = ErrorJson
        ELSE /\ q["http"].pc = "failed"
             /\ ~q["http"].genDone
             /\ q["http"].response = ""
             /\ q["http"].asstRow = 0

\* cloud mode: the error payload of a non-2xx response came back as the
\* response of chat_query
C13_Witness ==
    /\ llmMode = "cloud"
    /\ q["http"].llm = "http_error"
    /\ q["http"].pc = "done"
    /\ q["http"].reply.response = ErrorJson

\* no core work has been done for the query of handler h
NoWork(h) ==
    /\ q[h].creates = 0
    /\ q[h].histConv = NoOne
    /\ q[h].userRow = 0
    /\ q[h].asstRow = 0
    /\ ~q[h].searched
    /\ q[h].api = {}
    /\ ~q[h].genStarted
    /\ conversations = {}
    /\ messages = <<>>

\* C14 as claimed: a query whose message is empty or missing is rejected,
\* and no conversation is created, nothing is written, and no retrieval,
\* tool fetch or generation is done for it.
C14_EmptyRejected ==
    \A h \in Handlers :
        (q[h] # IdleQuery /\ q[h].msg_in \in {NoMsg, ""}) =>
            /\ q[h].pc = "rejected"
            /\ NoWork(h)

\* C14 as amended: a chat_query request without a message is rejected with
\* no core work done; every other request is accepted, an empty message (on
\* the WebSocket path also a missing one, read as empty) being stored and
\* processed like any other.
C14_MissingRejected ==
    \A h \in Handlers :
        q[h] # IdleQuery =>
            IF h = "http" /\ q[h].msg_in = NoMsg
            THEN /\ q[h].pc = "rejected"
                 /\ q[h].reply.status = 422
                 /\ NoWork(h)
            ELSE /\ q[h].pc # "rejected"
                 /\ q[h].reply.status # 422
                 /\ q[h].msg = (IF q[h].msg_in = NoMsg THEN ""
                                ELSE q[h].msg_in)
                 /\ q[h].userRow # 0 =>
                        RowIs(q[h].userRow, q[h].conv_id, "user", q[h].msg)

\* a chat_query request without a message has been rejected
C14_Witness ==
    /\ q["http"].pc = "rejected"
    /\ q["http"].msg_in = NoMsg
    /\ q["http"].reply.status = 422

\* C15: the conversation id of a query is resolved before its history is
\* read or anything is retrieved; create_conversation is called once when
\* the request carries no id (none, or an empty one) and not at all
\* otherwise; the history read, the two message writes and the returned
\* conversation_id all use the resolved id.
C15_OneConversationId ==
    \A h \in Handlers :
        /\ q[h].conv_id = NoOne =>
               /\ q[h].creates = 0
               /\ q[h].histConv = NoOne
               /\ ~q[h].searched
               /\ q[h].userRow = 0
               /\ q[h].asstRow = 0
               /\ q[h].pc \in {"idle", "resolve", "rejected", "closed"}
        /\ q[h].conv_id # NoOne =>
               /\ Truthy(q[h].conv_id)
               /\ q[h].creates = (IF Truthy(q[h].conv_in) THEN 0 ELSE 1)
               /\ Truthy(q[h].conv_in) => q[h].conv_id = q[h].conv_in
               /\ q[h].histConv \in {NoOne, q[h].conv_id}
               /\ (q[h].searched \/ q[h].userRow # 0) =>
                      q[h].histConv = q[h].conv_id
               /\ q[h].userRow # 0 =>
                      RowIs(q[h].userRow, q[h].conv_id, "user", q[h].msg)
               /\ q[h].asstRow # 0 =>
                      RowIs(q[h].asstRow, q[h].conv_id, "assistant",
                            q[h].response)
               /\ q[h].reply.status = 200 =>
                      q[h].reply.conversation_id = q[h].conv_id

\* a query without an id and a query with an id have both been answered
C15_Witness ==
    /\ q["ws"].pc = "idle"
    /\ q["ws"].reply.status = 200
    /\ q["ws"].creates = 0
    /\ q["ws"].conv_in = "c1"
    /\ \E i \in 1..Len(messages) : messages[i].conversation_id # "c1"

(***************************************************************************)
(* Properties of the tool fan-out.                                         *)
(***************************************************************************)
\* C5: the result of the fan-out has an entry for every requested tool
\* name, also for a tool that failed and for an unknown name.
C5_EveryRequestedKey ==
    pcTools = "done" => Range(ftTools) \subseteq DOMAIN ftData

\* a requested tool that fails: its API raises or returns an error dict, or
\* its branch is a fixed error
Fails(t) ==
    \/ t \in StubTools
    \/ t \in ApiTools /\ ftEnv[t] # "ok"

Without(tools, t) == SelectSeq(tools, LAMBDA x : x # t)

\* C6: when one of several requested tools fails, its entry is an error
\* value, every other requested tool with a branch has been invoked and
\* its entry is what the call without the failing tool returns, and the
\* call itself returns.
C6_FailureIsolated ==
    /\ pcTools \in {"loop", "done"}
    /\ pcTools = "done" =>
           \A f \in Range(ftTools) :
               Fails(f) =>
                   /\ f \in DOMAIN ftData
                   /\ ftData[f].kind = "error"
                   /\ \A t \in (Range(ftTools) \ {f}) \cap
                                   (ApiTools \cup StubTools) :
                          /\ t \in DOMAIN ftData
                          /\ ftData[t] =
                                 FetchToolData(Without(ftTools, f), ftEnv)[t]

\* a returned call in which one requested API raised, listed before a
\* requested API that answered
C6_Witness ==
    /\ pcTools = "done"
    /\ \E i \in 1..Len(ftTools), j \in 1..Len(ftTools) :
           /\ i < j
           /\ ftTools[i] \in ApiTools /\ ftEnv[ftTools[i]] = "raise"
           /\ ftTools[j] \in ApiTools /\ ftEnv[ftTools[j]] = "ok"
           /\ ftData[ftTools[j]] = Payload(ftTools[j])

\* C20: the tool calls of one fan-out are issued concurrently: every call is
\* started before any call of the fan-out has returned.
C20_CallsIssuedConcurrently ==
    \A a, b \in 1..Len(ftLog) :
        (ftLog[a].ev = "start" /\ ftLog[b].ev = "return") => a < b

(***************************************************************************)
(* Properties of chunk_text.                                               *)
(***************************************************************************)
\* 0-based positions of txt selected by the Python slice txt[a:b]
SliceRange(txt, a, b) ==
    LET lo == PyBound(a, Len(txt))
        hi == PyBound(b, Len(txt))
    IN {p \in 0..(Len(txt) - 1) : lo <= p /\ p < hi}

\* C8: every iteration of the loop advances start by at least S - O > 0,
\* that is by at least one character, so that after k iterations start is
\* at least k and the loop ends within Len(text) iterations.
C8_AdvanceTerminates ==
    /\ start >= chunk_index
    /\ chunk_index <= Len(text)

\* C9: the returned chunks and metadata are index-aligned: equal length,
\* metadata[i].chunk_index = i (0-based), start_char non-decreasing in i.
C9_IndexAligned ==
    pcChunk = "done" =>
        /\ Len(chunks) = Len(metadata)
        /\ \A i \in 1..Len(metadata) : metadata[i].chunk_index = i - 1
        /\ \A i \in 1..(Len(metadata) - 1) :
               metadata[i].start_char <= metadata[i + 1].start_char

\* C10: the windows [start_i, end_i) of chunk_text cover the text without
\* a gap: the first starts at 0, each next one starts at the previous end
\* minus O (at or before that end), every chunk is the trimmed slice of its
\* window, every position before the furthest end lies in a window; in a
\* returned result the last window reaches the end of the text and every
\* character position lies in the slice of some window.
C10_WindowsCover ==
    /\ Len(ends) = Len(metadata)
    /\ Len(chunks) = Len(metadata)
    /\ Len(metadata) > 0 => metadata[1].start_char = 0
    /\ \A i \in 1..(Len(metadata) - 1) :
           /\ metadata[i + 1].start_char = ends[i] - overlap
           /\ metadata[i + 1].start_char <= ends[i]
    /\ \A i \in 1..Len(metadata) :
           chunks[i] = Strip(PySlice(text, metadata[i].start_char, ends[i]))
    /\ \A p \in 0..(Len(text) - 1) :
           (\E j \in 1..Len(ends) : p < ends[j]) =>
               \E i \in 1..Len(metadata) :
                   metadata[i].start_char <= p /\ p < ends[i]
    /\ pcChunk = "done" =>
           /\ Len(text) > 0 => Len(metadata) > 0
           /\ Len(metadata) > 0 => ends[Len(ends)] >= Len(text)
           /\ \A p \in 0..(Len(text) - 1) :
                  \E i \in 1..Len(metadata) :
                      p \in SliceRange(text, metadata[i].start_char, ends[i])

\* a returned result of several windows, one of them shortened at a
\* sentence boundary, with a positive overlap
C10_Witness ==
    /\ pcChunk = "done"
    /\ overlap > 0
    /\ Len(metadata) >= 3
    /\ \E i \in 1..Len(metadata) :
           ends[i] < metadata[i].start_char + chunk_size

(***************************************************************************)
(* Properties of VectorStoreService.                                       *)
(***************************************************************************)
\* C16: once the embedding model has been reloaded with a name, every later
\* add and search embeds with the model of that name, also when the reload
\* came through the settings endpoint and the add or search serves an upload
\* or a chat query; a reload leaves the stored entries as they are.
C16_ReloadGoverns ==
    /\ []((wanted # NoModel /\ vcall.op \in {"add", "search"}) =>
              vcall.model = wanted)
    /\ [][vcall'.op = "reload" => collection' = collection]_vars

\* C17: delete_document(filename) succeeds, removes every entry whose
\* metadata filename is the argument and leaves every other entry as it was;
\* with no matching entry the collection is unchanged.
C17_DeleteFrame ==
    [][vcall'.op = "delete" =>
          /\ vcall'.status = 200
          /\ \A r \in Range(collection') :
                 r.metadata["filename"] # vcall'.filename
          /\ \A r \in Range(collection) :
                 r.metadata["filename"] # vcall'.filename =>
                     r \in Range(collection')
          /\ Range(collection') \subseteq Range(collection)
          /\ Len(collection') = Cardinality(Range(collection'))
          /\ (\A r \in Range(collection) :
                  r.metadata["filename"] # vcall'.filename) =>
                 collection' = collection]_vars

\* a delete that removed the two entries of one file and kept another file
C17_Witness ==
    /\ vcall.op = "delete"
    /\ vcall.count = 2
    /\ collection # <<>>

\* C18: list_documents returns exactly the filenames that have at least one
\* stored entry; after the entries of the only file are deleted it returns
\* the empty set.
C18_ListIsStoredFilenames ==
    vcall.op = "list" =>
        /\ \A f \in vcall.result :
               \E i \in 1..Len(collection) :
                   collection[i].metadata["filename"] = f
        /\ \A i \in 1..Len(collection) :
               collection[i].metadata["filename"] \in vcall.result
        /\ collection = <<>> => vcall.result = {}

\* two files were added, one was deleted: the listing is the other one
C18_Witness ==
    /\ vcall.op = "list"
    /\ Cardinality(vcall.result) = 1
    /\ Len(collection) >= 2
    /\ nextUuid - 1 > Len(collection)

(***************************************************************************)
(* Properties of LLMService.generate_stream.                               *)
(***************************************************************************)
\* the text delta a received line carries, "" when it carries none
DeltaContent(line) ==
    IF /\ line.prefix = "data: "
       /\ line.payload = "json"
       /\ line.json.choices = "list"
       /\ line.json.list # <<>>
       /\ line.json.list[1].delta = "object"
       /\ line.json.list[1].content \notin {NoKey, JsonNull}
    THEN line.json.list[1].content
    ELSE ""

RECURSIVE DeltasBeforeDone(_)
\* the non-empty text deltas of the lines before the first [DONE] line
DeltasBeforeDone(lines) ==
    IF lines = <<>> \/ IsDoneLine(Head(lines)) THEN <<>>
    ELSE LET rest == DeltasBeforeDone(Tail(lines))
         IN  IF DeltaContent(Head(lines)) = "" THEN rest
             ELSE <<DeltaContent(Head(lines))>> \o rest

\* C21: in cloud mode generate_stream yields, in arrival order, exactly the
\* non-empty delta contents of the data lines received before the first
\* [DONE] line, nothing from a line at or after it, and then ends; in local
\* mode it returns only when the transport has closed.
C21_YieldsDeltasUntilDone ==
    /\ llmMode = "cloud" =>
          /\ Len(gsYield) <= Len(DeltasBeforeDone(gsLines))
          /\ gsYield = SubSeq(DeltasBeforeDone(gsLines), 1, Len(gsYield))
          /\ pcStream \in {"returned", "raised"} =>
                gsYield = DeltasBeforeDone(gsLines)
    /\ (llmMode = "local" /\ pcStream = "returned") =>
          gsIdx > Len(gsLines)

(***************************************************************************)
(* Properties of LLMService.build_rag_prompt.                              *)
(***************************************************************************)
\* where a piece occurs in the returned string
PositionsOf(piece) == {i \in 1..Len(bpOut) : bpOut[i] = piece}

SectionOrder ==
    <<HistoryHeader, QuestionHeader, ContextHeader, ExternalHeader,
      ClosingInstruction>>

\* C22: build_rag_prompt puts its sections out in the order conversation
\* history, current question, document context, external data, closing
\* instruction, whichever of them are present; the current question and
\* the closing instruction are always there.
C22_FixedSectionOrder ==
    pcPrompt = "returned" =>
        /\ \A s \in 1..Len(SectionOrder) :
               Cardinality(PositionsOf(SectionOrder[s])) <= 1
        /\ \A s, t \in 1..Len(SectionOrder) :
               s < t =>
                   \A i \in PositionsOf(SectionOrder[s]),
                      j \in PositionsOf(SectionOrder[t]) : i < j
        /\ PositionsOf(QuestionHeader) # {}
        /\ PositionsOf(ClosingInstruction) = {Len(bpOut)}

\* build_rag_prompt returned a prompt with all five sections
C22_Witness ==
    /\ pcPrompt = "returned"
    /\ bpHistory # <<>> /\ bpChunks # <<>> /\ bpApi.items # <<>>
    /\ \A s \in 1..Len(SectionOrder) : PositionsOf(SectionOrder[s]) # {}

\* C23: the headers 'Conversation History:', 'Document Context:' and
\* 'External Data:' are in the prompt exactly when the history, the chunk
\* list and the tool data, respectively, are not empty.
C23_NoEmptySection ==
    pcPrompt = "returned" =>
        /\ PositionsOf(HistoryHeader) # {} <=> bpHistory # <<>>
        /\ PositionsOf(ContextHeader) # {} <=> bpChunks # <<>>
        /\ PositionsOf(ExternalHeader) # {} <=>
               (~bpApi.none /\ bpApi.items # <<>>)

\* build_rag_prompt returned for no history, no chunk and an empty dict of
\* tool data: the prompt is the question and the closing instruction
C23_Witness ==
    /\ pcPrompt = "returned"
    /\ bpHistory = <<>> /\ bpChunks = <<>>
    /\ ~bpApi.none /\ bpApi.items = <<>>
    /\ bpOut = <<QuestionHeader, bpQuery, "\n", "\n", ClosingInstruction>>

(***************************************************************************)
(* Properties of provider resolution.                                      *)
(***************************************************************************)
\* C29: for every environment llm_provider and stored LLM configuration,
\* is_local and is_openrouter are never both true, and the request shape of
\* generate and generate_stream (local /completion or cloud
\* /chat/completions) is that of the mode for which base_url was resolved.
C29_OneModeConsistently ==
    /\ pcProv \in {"ready", "sent"} =>
           ~(IsLocal(envProvider, llmConfig)
             /\ IsOpenrouter(envProvider, llmConfig))
    /\ pcProv = "sent" =>
           (llmRequest.path = "/completion"
                <=> BaseUrlBranch(envProvider, llmConfig)
                        \in {"env_local", "local"})

(***************************************************************************)
(* Properties of model downloads.                                          *)
(***************************************************************************)
\* the downloads of an id answered started and not yet finished
InProgress(id) == bgTasks[id] + dlRunning[id]

\* C30: for every download id at most one download is in progress at a
\* time: a request for an id whose earlier request was answered started and
\* whose download has not finished is answered already_downloading and
\* adds no second download.
C30_OneDownloadPerId ==
    /\ [](\A id \in DownloadIds : InProgress(id) <= 1)
    /\ [][\A id \in DownloadIds :
            (dlRequests' = dlRequests + 1 /\ dlResp'.download_id = id
             /\ InProgress(id) >= 1)
            => (dlResp'.status = "already_downloading"
                /\ bgTasks' = bgTasks)]_vars

====
